---- MODULE Spec2Model ----
(***************************************************************************)
(* A model of the Lox interpreter of src/app/main.ts (lines 1-1584): the   *)
(* scanner, the recursive-descent parser, the resolver and the tree-walking*)
(* evaluator, the tree printer, and the command dispatch that chains them  *)
(* for the commands tokenize, parse and run.                               *)
(*                                                                         *)
(* Representation.  A JavaScript string is a sequence of one-character     *)
(* strings, so that charAt/substring are indexing and SubSeq.  A value is  *)
(* a tagged record: nil, bool, num, str, fn (a LoxFunction, by identity),  *)
(* native (the clock) and undefined (what Map.get yields for a missing     *)
(* key).  A number is a decimal n / 10^d kept normalised.  The scanner,    *)
(* the parser and the resolver are operators that thread their object's    *)
(* fields through a record; the evaluator is a machine with a control      *)
(* register and a stack of frames, one frame per pending JavaScript call.  *)
(***************************************************************************)
EXTENDS Integers, Sequences, FiniteSets, TLC

\* ------------------------------------------------------------------------
\* Values
\* ------------------------------------------------------------------------

Nil == [t |-> "nil"]

Undefined == [t |-> "undefined"]

Bool(b) == [t |-> "bool", v |-> b]

RECURSIVE Norm(_, _)
\* a decimal without trailing zeros in its fraction: 1.50 and 1.5 are one number
Norm(n, d) == IF d > 0 /\ n % 10 = 0 THEN Norm(n \div 10, d - 1) ELSE [t |-> "num", n |-> n, d |-> d]

Num(n) == Norm(n, 0)

Str(s) == [t |-> "str", s |-> s]

Fn(id) == [t |-> "fn", id |-> id]

Native == [t |-> "native"]

\* ------------------------------------------------------------------------
\* Scanner (class Scanner)
\* ------------------------------------------------------------------------

Digits == <<"0", "1", "2", "3", "4", "5", "6", "7", "8", "9">>

Letters == {"a", "b", "c", "d", "e", "f", "g", "h", "i", "j", "k", "l", "m",
            "n", "o", "p", "q", "r", "s", "t", "u", "v", "w", "x", "y", "z",
            "A", "B", "C", "D", "E", "F", "G", "H", "I", "J", "K", "L", "M",
            "N", "O", "P", "Q", "R", "S", "T", "U", "V", "W", "X", "Y", "Z"}

isDigit(c) == \E i \in 1..10 : Digits[i] = c

isAlpha(c) == c \in Letters \/ c = "_"

isAlphaNumeric(c) == isAlpha(c) \/ isDigit(c)

DigitValue(c) == (CHOOSE i \in 1..10 : Digits[i] = c) - 1

keywords ==
  [lexeme \in { <<"a","n","d">>, <<"c","l","a","s","s">>, <<"e","l","s","e">>,
                <<"f","a","l","s","e">>, <<"f","o","r">>, <<"f","u","n">>, <<"i","f">>,
                <<"n","i","l">>, <<"o","r">>, <<"p","r","i","n","t">>,
                <<"r","e","t","u","r","n">>, <<"s","u","p","e","r">>, <<"t","h","i","s">>,
                <<"t","r","u","e">>, <<"v","a","r">>, <<"w","h","i","l","e">> } |->
     CASE lexeme = <<"a","n","d">> -> "AND"
       [] lexeme = <<"c","l","a","s","s">> -> "CLASS"
       [] lexeme = <<"e","l","s","e">> -> "ELSE"
       [] lexeme = <<"f","a","l","s","e">> -> "FALSE"
       [] lexeme = <<"f","o","r">> -> "FOR"
       [] lexeme = <<"f","u","n">> -> "FUN"
       [] lexeme = <<"i","f">> -> "IF"
       [] lexeme = <<"n","i","l">> -> "NIL"
       [] lexeme = <<"o","r">> -> "OR"
       [] lexeme = <<"p","r","i","n","t">> -> "PRINT"
       [] lexeme = <<"r","e","t","u","r","n">> -> "RETURN"
       [] lexeme = <<"s","u","p","e","r">> -> "SUPER"
       [] lexeme = <<"t","h","i","s">> -> "THIS"
       [] lexeme = <<"t","r","u","e">> -> "TRUE"
       [] lexeme = <<"v","a","r">> -> "VAR"
       [] lexeme = <<"w","h","i","l","e">> -> "WHILE"]

Token(type, lexeme, literal, line) ==
  [type |-> type, lexeme |-> lexeme, literal |-> literal, line |-> line]

\* new Scanner(source): indices are 0-based as in the code
NewScanner(source) ==
  [source |-> source, tokens |-> <<>>, start |-> 0, current |-> 0, line |-> 1,
   hadError |-> FALSE, diags |-> <<>>]

\* String.charAt: the empty string outside the string
charAt(source, i) == IF i >= 0 /\ i < Len(source) THEN source[i + 1] ELSE ""

\* String.substring(a, b) for 0 <= a <= b <= length
substring(source, a, b) == SubSeq(source, a + 1, b)

scanIsAtEnd(sc) == sc.current >= Len(sc.source)

\* the NUL character peek() yields at the end is no digit, letter, quote or newline
scanPeek(sc) == IF scanIsAtEnd(sc) THEN "\\0" ELSE charAt(sc.source, sc.current)

scanPeekNext(sc) ==
  IF sc.current + 1 >= Len(sc.source) THEN "\\0" ELSE charAt(sc.source, sc.current + 1)

scanAdvance(sc) == [sc EXCEPT !.current = @ + 1]

scanMatches(sc, expected) ==
  ~scanIsAtEnd(sc) /\ charAt(sc.source, sc.current) = expected

addToken(sc, type, literal) ==
  [sc EXCEPT !.tokens = Append(@, Token(type, substring(sc.source, sc.start, sc.current),
                                        literal, sc.line))]

\* a faulty error that gives up the scan: nothing is read after the error
scanErrorStopping(sc, line, message) ==
  [sc EXCEPT !.hadError = TRUE,
             !.diags = Append(@, [fmt |-> "scan", line |-> line] @@ message),
             !.current = Len(sc.source)]

scanError(sc, line, message) ==
  [sc EXCEPT !.hadError = TRUE,
             !.diags = Append(@, [fmt |-> "scan", line |-> line] @@ message)]

\* case '!' '=' '<' '>': this.addToken(this.match('=') ? two : one)
addOneOrTwo(sc, two, one) ==
  IF scanMatches(sc, "=") THEN addToken(scanAdvance(sc), two, Nil) ELSE addToken(sc, one, Nil)

RECURSIVE skipComment(_)
skipComment(sc) ==
  IF scanPeek(sc) # "\n" /\ ~scanIsAtEnd(sc) THEN skipComment(scanAdvance(sc)) ELSE sc

RECURSIVE stringBodySameLine(_)
\* a faulty loop of scanString that does not count the newlines inside the string
stringBodySameLine(sc) ==
  IF scanPeek(sc) # "\"" /\ ~scanIsAtEnd(sc) THEN stringBodySameLine(scanAdvance(sc)) ELSE sc

RECURSIVE stringBody(_)
stringBody(sc) ==
  IF scanPeek(sc) # "\"" /\ ~scanIsAtEnd(sc)
  THEN stringBody(scanAdvance(IF scanPeek(sc) = "\n" THEN [sc EXCEPT !.line = @ + 1] ELSE sc))
  ELSE sc

\* a faulty scanString that reports the unterminated string on the line of its quote
scanStringOpeningLine(sc) ==
  LET body == stringBody(sc)
      closed == scanAdvance(body)
  IN IF scanIsAtEnd(body)
     THEN scanError(body, sc.line, [msg |-> "Unterminated string."])
     ELSE addToken(closed, "STRING",
                   Str(substring(closed.source, closed.start + 1, closed.current - 1)))

scanString(sc) ==
  LET body == stringBody(sc)
      closed == scanAdvance(body)
  IN IF scanIsAtEnd(body)
     THEN scanError(body, body.line, [msg |-> "Unterminated string."])
     ELSE addToken(closed, "STRING",
                   Str(substring(closed.source, closed.start + 1, closed.current - 1)))

RECURSIVE digitRun(_)
digitRun(sc) == IF isDigit(scanPeek(sc)) THEN digitRun(scanAdvance(sc)) ELSE sc

RECURSIVE DigitsValue(_)
DigitsValue(ds) ==
  IF ds = <<>> THEN 0 ELSE 10 * DigitsValue(SubSeq(ds, 1, Len(ds) - 1)) + DigitValue(ds[Len(ds)])

\* parseFloat of a lexeme digit+ or digit+ '.' digit+
parseFloat(lexeme) ==
  LET dot == IF \E i \in 1..Len(lexeme) : lexeme[i] = "."
             THEN CHOOSE i \in 1..Len(lexeme) : lexeme[i] = "."
             ELSE 0
  IN IF dot = 0
     THEN Norm(DigitsValue(lexeme), 0)
     ELSE Norm(DigitsValue(SubSeq(lexeme, 1, dot - 1) \o SubSeq(lexeme, dot + 1, Len(lexeme))),
               Len(lexeme) - dot)

scanNumber(sc) ==
  LET whole == digitRun(sc)
      all == IF scanPeek(whole) = "." /\ isDigit(scanPeekNext(whole))
             THEN digitRun(scanAdvance(whole))
             ELSE whole
  IN addToken(all, "NUMBER", parseFloat(substring(all.source, all.start, all.current)))

RECURSIVE alnumRun(_)
alnumRun(sc) == IF isAlphaNumeric(scanPeek(sc)) THEN alnumRun(scanAdvance(sc)) ELSE sc

scanIdentifier(sc) ==
  LET run == alnumRun(sc)
      text == substring(run.source, run.start, run.current)
      tokenType == IF text \in DOMAIN keywords THEN keywords[text] ELSE "IDENTIFIER"
      literal == IF tokenType = "TRUE" THEN Bool(TRUE)
                 ELSE IF tokenType = "FALSE" THEN Bool(FALSE)
                 ELSE Nil
  IN addToken(run, tokenType, literal)

scanToken(sc0) ==
  LET c == charAt(sc0.source, sc0.current)
      sc == scanAdvance(sc0)
  IN CASE c = "(" -> addToken(sc, "LEFT_PAREN", Nil)
       [] c = ")" -> addToken(sc, "RIGHT_PAREN", Nil)
       [] c = "{" -> addToken(sc, "LEFT_BRACE", Nil)
       [] c = "}" -> addToken(sc, "RIGHT_BRACE", Nil)
       [] c = "," -> addToken(sc, "COMMA", Nil)
       [] c = "." -> addToken(sc, "DOT", Nil)
       [] c = "-" -> addToken(sc, "MINUS", Nil)
       [] c = "+" -> addToken(sc, "PLUS", Nil)
       [] c = ";" -> addToken(sc, "SEMICOLON", Nil)
       [] c = "*" -> addToken(sc, "STAR", Nil)
       [] c = "!" -> addOneOrTwo(sc, "BANG_EQUAL", "BANG")
       [] c = "=" -> addOneOrTwo(sc, "EQUAL_EQUAL", "EQUAL")
       [] c = "<" -> addOneOrTwo(sc, "LESS_EQUAL", "LESS")
       [] c = ">" -> addOneOrTwo(sc, "GREATER_EQUAL", "GREATER")
       [] c = "/" -> IF scanMatches(sc, "/")
                     THEN skipComment(scanAdvance(sc))
                     ELSE addToken(sc, "SLASH", Nil)
       [] c = "\"" -> scanString(sc)
       [] c \in {" ", "\r", "\t"} -> sc
       [] c = "\n" -> [sc EXCEPT !.line = @ + 1]
       [] OTHER -> IF isDigit(c) THEN scanNumber(sc)
                   ELSE IF isAlpha(c) THEN scanIdentifier(sc)
                   ELSE scanError(sc, sc.line, [msg |-> "Unexpected character: ", c |-> c])

\* a faulty scanNext that leaves this.start where it was
scanNextSameStart(sc) == scanToken(sc)

\* scanTokens(), one turn of its loop: this.start = this.current; this.scanToken()
scanNext(sc) == scanToken([sc EXCEPT !.start = sc.current])

\* a faulty scanEnd that leaves EOF out after a scan error
scanEndUnlessError(sc) ==
  IF sc.hadError THEN sc ELSE [sc EXCEPT !.tokens = Append(@, Token("EOF", <<>>, Nil, sc.line))]

\* scanTokens() after its loop: the EOF token
scanEnd(sc) == [sc EXCEPT !.tokens = Append(@, Token("EOF", <<>>, Nil, sc.line))]

RECURSIVE scanTokens(_)
\* scanTokens(): the loop to the end of the source, then the EOF token
scanTokens(sc) == IF ~scanIsAtEnd(sc) THEN scanTokens(scanNext(sc)) ELSE scanEnd(sc)

\* ------------------------------------------------------------------------
\* Syntax tree (classes Expr and Stmt and their subclasses)
\* ------------------------------------------------------------------------

\* the JavaScript null where a node or a token is expected
Null == [k |-> "null"]

Literal(value) == [k |-> "Literal", value |-> value]

Unary(operator, right) == [k |-> "Unary", operator |-> operator, right |-> right]

Binary(left, operator, right) ==
  [k |-> "Binary", left |-> left, operator |-> operator, right |-> right]

Grouping(expression) == [k |-> "Grouping", expression |-> expression]

\* Variable and Assign nodes are keys of the resolver's side table (a Map keyed by
\* object identity): id stands for the identity.  It is the index of the name token,
\* which the parser consumes once, making one Variable, replaced by at most one Assign.
Variable(name, id) == [k |-> "Variable", name |-> name, id |-> id]

Assign(name, value, id) == [k |-> "Assign", name |-> name, value |-> value, id |-> id]

Logical(left, operator, right) ==
  [k |-> "Logical", left |-> left, operator |-> operator, right |-> right]

Call(callee, paren, args) == [k |-> "Call", callee |-> callee, paren |-> paren, args |-> args]

Expression(expression) == [k |-> "Expression", expression |-> expression]

\* class Print (the name is taken by the TLC module)
PrintStmt(expression) == [k |-> "Print", expression |-> expression]

Var(name, initializer) == [k |-> "Var", name |-> name, initializer |-> initializer]

Block(statements) == [k |-> "Block", statements |-> statements]

If(condition, thenBranch, elseBranch) ==
  [k |-> "If", condition |-> condition, thenBranch |-> thenBranch, elseBranch |-> elseBranch]

While(condition, body) == [k |-> "While", condition |-> condition, body |-> body]

Function(name, params, body) == [k |-> "Function", name |-> name, params |-> params, body |-> body]

Return(keyword, value) == [k |-> "Return", keyword |-> keyword, value |-> value]

\* ------------------------------------------------------------------------
\* Parser (class Parser).  Every method is an operator from the parser object
\* to a result [p, thrown, node]: the parser object afterwards, whether the
\* method threw the Error made by error(), and the value it returned.
\* ------------------------------------------------------------------------

NewParser(tokens) == [tokens |-> tokens, current |-> 0, hadError |-> FALSE, diags |-> <<>>]

peek(p) == p.tokens[p.current + 1]

previous(p) == p.tokens[p.current]

isAtEnd(p) == peek(p).type = "EOF"

check(p, type) == IF isAtEnd(p) THEN FALSE ELSE peek(p).type = type

advance(p) == IF ~isAtEnd(p) THEN [p EXCEPT !.current = @ + 1] ELSE p

\* match(...types): whether one of the types is the current one; the caller advances
match(p, types) == \E type \in types : check(p, type)

Ok(p, node) == [p |-> p, thrown |-> FALSE, node |-> node]

Thrown(p) == [p |-> p, thrown |-> TRUE, node |-> Null]

\* error(token, message): the parser object after recording the diagnostic
error(p, token, message) ==
  [p EXCEPT !.hadError = TRUE,
            !.diags = Append(@, [fmt |-> "parse", line |-> token.line,
                                 where |-> IF token.type = "EOF" THEN <<"e","n","d">>
                                           ELSE <<"'">> \o token.lexeme \o <<"'">>,
                                 msg |-> message])]

consume(p, type, message) ==
  IF check(p, type) THEN Ok(advance(p), previous(advance(p)))
  ELSE Thrown(error(p, peek(p), message))

RECURSIVE rule(_, _)
\* this.method(): the methods of the parser call each other through rule
RECURSIVE factorLoop(_, _), termLoop(_, _), comparisonLoop(_, _), equalityLoop(_, _),
          andLoop(_, _), orLoop(_, _), argumentsLoop(_, _), finishCall(_, _),
          parametersLoop(_, _), blockLoop(_, _)

factor(p) ==
  LET first == rule("unary", p) IN IF first.thrown THEN first ELSE factorLoop(first.p, first.node)

factorLoop(p, expr) ==
  IF match(p, {"STAR", "SLASH"})
  THEN LET right == rule("unary", advance(p))
       IN IF right.thrown THEN right
          ELSE factorLoop(right.p, Binary(expr, previous(advance(p)), right.node))
  ELSE Ok(p, expr)

term(p) ==
  LET first == rule("factor", p) IN IF first.thrown THEN first ELSE termLoop(first.p, first.node)

\* a faulty termLoop that nests to the right: a - b - c becomes a - (b - c)
termLoopRight(p, expr) ==
  IF match(p, {"PLUS", "MINUS"})
  THEN LET right == rule("term", advance(p))
       IN IF right.thrown THEN right
          ELSE Ok(right.p, Binary(expr, previous(advance(p)), right.node))
  ELSE Ok(p, expr)

termLoop(p, expr) ==
  IF match(p, {"PLUS", "MINUS"})
  THEN LET right == rule("factor", advance(p))
       IN IF right.thrown THEN right
          ELSE termLoop(right.p, Binary(expr, previous(advance(p)), right.node))
  ELSE Ok(p, expr)

comparison(p) ==
  LET first == rule("term", p) IN IF first.thrown THEN first ELSE comparisonLoop(first.p, first.node)

comparisonLoop(p, expr) ==
  IF match(p, {"GREATER", "GREATER_EQUAL", "LESS", "LESS_EQUAL"})
  THEN LET right == rule("term", advance(p))
       IN IF right.thrown THEN right
          ELSE comparisonLoop(right.p, Binary(expr, previous(advance(p)), right.node))
  ELSE Ok(p, expr)

equality(p) ==
  LET first == rule("comparison", p) IN IF first.thrown THEN first ELSE equalityLoop(first.p, first.node)

equalityLoop(p, expr) ==
  IF match(p, {"BANG_EQUAL", "EQUAL_EQUAL"})
  THEN LET right == rule("comparison", advance(p))
       IN IF right.thrown THEN right
          ELSE equalityLoop(right.p, Binary(expr, previous(advance(p)), right.node))
  ELSE Ok(p, expr)

and(p) ==
  LET first == rule("equality", p) IN IF first.thrown THEN first ELSE andLoop(first.p, first.node)

andLoop(p, expr) ==
  IF match(p, {"AND"})
  THEN LET right == rule("equality", advance(p))
       IN IF right.thrown THEN right
          ELSE andLoop(right.p, Logical(expr, previous(advance(p)), right.node))
  ELSE Ok(p, expr)

or(p) ==
  LET first == rule("and", p) IN IF first.thrown THEN first ELSE orLoop(first.p, first.node)

orLoop(p, expr) ==
  IF match(p, {"OR"})
  THEN LET right == rule("and", advance(p))
       IN IF right.thrown THEN right
          ELSE orLoop(right.p, Logical(expr, previous(advance(p)), right.node))
  ELSE Ok(p, expr)

\* a faulty assignment that throws the error of an invalid target
assignmentThrowing(p) ==
  LET left == rule("or", p)
  IN IF left.thrown THEN left
     ELSE IF match(left.p, {"EQUAL"})
     THEN LET equals == previous(advance(left.p))
              value == rule("assignment", advance(left.p))
          IN IF value.thrown THEN value
             ELSE IF left.node.k = "Variable"
             THEN Ok(value.p, Assign(left.node.name, value.node, left.node.id))
             ELSE Thrown(error(value.p, equals, "Invalid assignment target."))
     ELSE left

assignment(p) ==
  LET left == rule("or", p)
  IN IF left.thrown THEN left
     ELSE IF match(left.p, {"EQUAL"})
     THEN LET equals == previous(advance(left.p))
              value == rule("assignment", advance(left.p))
          IN IF value.thrown THEN value
             ELSE IF left.node.k = "Variable"
             THEN Ok(value.p, Assign(left.node.name, value.node, left.node.id))
             ELSE Ok(error(value.p, equals, "Invalid assignment target."), left.node)
     ELSE left

expression(p) == rule("assignment", p)

unary(p) ==
  IF match(p, {"BANG", "MINUS"})
  THEN LET right == rule("unary", advance(p))
       IN IF right.thrown THEN right
          ELSE Ok(right.p, Unary(previous(advance(p)), right.node))
  ELSE rule("call", p)

RECURSIVE callLoop(_, _)
\* the while loop of call()
callLoop(p, expr) ==
  IF match(p, {"LEFT_PAREN"})
  THEN LET called == finishCall(advance(p), expr)
       IN IF called.thrown THEN called ELSE callLoop(called.p, called.node)
  ELSE Ok(p, expr)

\* the do-while of finishCall: one argument, then more while a comma follows
argumentsLoop(p, args) ==
  LET arg == rule("expression", p)
  IN IF arg.thrown THEN arg
     ELSE IF match(arg.p, {"COMMA"})
     THEN argumentsLoop(advance(arg.p), Append(args, arg.node))
     ELSE Ok(arg.p, Append(args, arg.node))

finishCall(p, callee) ==
  LET args == IF ~check(p, "RIGHT_PAREN") THEN argumentsLoop(p, <<>>) ELSE Ok(p, <<>>)
  IN IF args.thrown THEN args
     ELSE LET paren == consume(args.p, "RIGHT_PAREN", "Expect ')' after arguments.")
          IN IF paren.thrown THEN paren
             ELSE Ok(paren.p, Call(callee, paren.node, args.node))

\* call(), the method of the parser
parseCall(p) ==
  LET first == rule("primary", p)
  IN IF first.thrown THEN first ELSE callLoop(first.p, first.node)

primary(p) ==
  CASE match(p, {"FALSE"}) -> Ok(advance(p), Literal(Bool(FALSE)))
    [] match(p, {"TRUE"}) -> Ok(advance(p), Literal(Bool(TRUE)))
    [] match(p, {"NIL"}) -> Ok(advance(p), Literal(Nil))
    [] match(p, {"NUMBER", "STRING"}) -> Ok(advance(p), Literal(previous(advance(p)).literal))
    [] match(p, {"IDENTIFIER"}) -> Ok(advance(p), Variable(previous(advance(p)), p.current))
    [] match(p, {"LEFT_PAREN"}) ->
         LET expr == rule("expression", advance(p))
         IN IF expr.thrown THEN expr
            ELSE LET close == consume(expr.p, "RIGHT_PAREN", "Expect ')' after expression.")
                 IN IF close.thrown THEN close ELSE Ok(close.p, Grouping(expr.node))
    [] OTHER -> Thrown(error(p, peek(p), "Expect expression."))

\* a faulty parse that returns null whenever the error flag is set
parseNullOnError(p) ==
  LET expr == rule("expression", p)
  IN IF expr.thrown \/ expr.p.hadError THEN Ok(expr.p, Null) ELSE expr

\* parse(): the expression, or null when the Error was thrown
parse(p) ==
  LET expr == rule("expression", p) IN IF expr.thrown THEN Ok(expr.p, Null) ELSE expr

RECURSIVE synchronizeToSemicolon(_)
\* a faulty synchronizeLoop that does not stop before a keyword
synchronizeToSemicolon(p) ==
  IF ~isAtEnd(p)
  THEN IF previous(p).type = "SEMICOLON" THEN p ELSE synchronizeToSemicolon(advance(p))
  ELSE p

RECURSIVE synchronizeLoop(_)
\* the while loop of synchronize()
synchronizeLoop(p) ==
  IF ~isAtEnd(p)
  THEN IF previous(p).type = "SEMICOLON" THEN p
       ELSE IF peek(p).type \in {"CLASS", "FUN", "VAR", "FOR", "IF", "WHILE", "PRINT", "RETURN"}
       THEN p
       ELSE synchronizeLoop(advance(p))
  ELSE p

synchronize(p) == synchronizeLoop(advance(p))

varDeclaration(p) ==
  LET name == consume(p, "IDENTIFIER", "Expect variable name.")
  IN IF name.thrown THEN name
     ELSE LET initializer == IF match(name.p, {"EQUAL"}) THEN rule("expression", advance(name.p))
                             ELSE Ok(name.p, Null)
          IN IF initializer.thrown THEN initializer
             ELSE LET semi == consume(initializer.p, "SEMICOLON",
                                      "Expect ';' after variable declaration.")
                  IN IF semi.thrown THEN semi
                     ELSE Ok(semi.p, Var(name.node, initializer.node))

printStatement(p) ==
  LET value == rule("expression", p)
  IN IF value.thrown THEN value
     ELSE LET semi == consume(value.p, "SEMICOLON", "Expect ';' after value.")
          IN IF semi.thrown THEN semi ELSE Ok(semi.p, PrintStmt(value.node))

\* called right after match("RETURN"): previous() is the keyword
returnStatement(p) ==
  LET keyword == previous(p)
      value == IF ~check(p, "SEMICOLON") THEN rule("expression", p) ELSE Ok(p, Null)
  IN IF value.thrown THEN value
     ELSE LET semi == consume(value.p, "SEMICOLON", "Expect ';' after return value.")
          IN IF semi.thrown THEN semi ELSE Ok(semi.p, Return(keyword, value.node))

expressionStatement(p) ==
  LET expr == rule("expression", p)
  IN IF expr.thrown THEN expr
     ELSE LET semi == consume(expr.p, "SEMICOLON", "Expect ';' after expression.")
          IN IF semi.thrown THEN semi ELSE Ok(semi.p, Expression(expr.node))

\* the try block of declaration()
declarationTry(p) ==
  IF match(p, {"FUN"}) THEN rule("function", advance(p))
  ELSE IF match(p, {"VAR"}) THEN rule("varDeclaration", advance(p))
  ELSE rule("statement", p)

\* a faulty declaration whose catch does not synchronize
declarationUnsynchronized(p) ==
  LET stmt == declarationTry(p) IN IF stmt.thrown THEN Ok(stmt.p, Null) ELSE stmt

\* declaration(): the try block, and the catch that synchronizes and returns null
declaration(p) ==
  LET stmt == declarationTry(p)
  IN IF stmt.thrown THEN Ok(synchronize(stmt.p), Null) ELSE stmt

\* the do-while of function(): one parameter, then more while a comma follows
parametersLoop(p, parameters) ==
  LET param == consume(p, "IDENTIFIER", "Expect parameter name.")
  IN IF param.thrown THEN param
     ELSE IF match(param.p, {"COMMA"})
     THEN parametersLoop(advance(param.p), Append(parameters, param.node))
     ELSE Ok(param.p, Append(parameters, param.node))

\* function(kind): the only call passes kind = "function"
function(p) ==
  LET name == consume(p, "IDENTIFIER", "Expect function name.")
  IN IF name.thrown THEN name
     ELSE LET open == consume(name.p, "LEFT_PAREN", "Expect '(' after function name.")
          IN IF open.thrown THEN open
             ELSE LET parameters == IF ~check(open.p, "RIGHT_PAREN")
                                    THEN parametersLoop(open.p, <<>>)
                                    ELSE Ok(open.p, <<>>)
                  IN IF parameters.thrown THEN parameters
                     ELSE LET close == consume(parameters.p, "RIGHT_PAREN",
                                               "Expect ')' after parameters.")
                          IN IF close.thrown THEN close
                             ELSE LET brace == consume(close.p, "LEFT_BRACE",
                                                       "Expect '{' before function body.")
                                  IN IF brace.thrown THEN brace
                                     ELSE LET body == rule("block", brace.p)
                                          IN IF body.thrown THEN body
                                             ELSE Ok(body.p, Function(name.node, parameters.node,
                                                                      body.node))

statement(p) ==
  CASE match(p, {"FOR"}) -> rule("forStatement", advance(p))
    [] match(p, {"IF"}) -> rule("ifStatement", advance(p))
    [] match(p, {"PRINT"}) -> rule("printStatement", advance(p))
    [] match(p, {"RETURN"}) -> rule("returnStatement", advance(p))
    [] match(p, {"WHILE"}) -> rule("whileStatement", advance(p))
    [] match(p, {"LEFT_BRACE"}) ->
         LET statements == rule("block", advance(p))
         IN IF statements.thrown THEN statements ELSE Ok(statements.p, Block(statements.node))
    [] OTHER -> rule("expressionStatement", p)

\* a faulty forDesugar that runs the increment before the body
forDesugarIncrementFirst(initializer, condition, increment, body) ==
  LET loopBody == IF increment # Null THEN Block(<<Expression(increment), body>>) ELSE body
      loop == While(IF condition = Null THEN Literal(Bool(TRUE)) ELSE condition, loopBody)
  IN IF initializer # Null THEN Block(<<initializer, loop>>) ELSE loop

\* the for statement, desugared: the loop, the loop body and the block around both
forDesugar(initializer, condition, increment, body) ==
  LET loopBody == IF increment # Null THEN Block(<<body, Expression(increment)>>) ELSE body
      loop == While(IF condition = Null THEN Literal(Bool(TRUE)) ELSE condition, loopBody)
  IN IF initializer # Null THEN Block(<<initializer, loop>>) ELSE loop

forStatement(p) ==
  LET open == consume(p, "LEFT_PAREN", "Expect '(' after 'for'.")
  IN IF open.thrown THEN open
     ELSE
  LET initializer == IF match(open.p, {"SEMICOLON"}) THEN Ok(advance(open.p), Null)
                     ELSE IF match(open.p, {"VAR"}) THEN rule("varDeclaration", advance(open.p))
                     ELSE rule("expressionStatement", open.p)
  IN IF initializer.thrown THEN initializer
     ELSE
  LET condition == IF ~check(initializer.p, "SEMICOLON") THEN rule("expression", initializer.p)
                   ELSE Ok(initializer.p, Null)
  IN IF condition.thrown THEN condition
     ELSE
  LET semi == consume(condition.p, "SEMICOLON", "Expect ';' after loop condition.")
  IN IF semi.thrown THEN semi
     ELSE
  LET increment == IF ~check(semi.p, "RIGHT_PAREN") THEN rule("expression", semi.p)
                   ELSE Ok(semi.p, Null)
  IN IF increment.thrown THEN increment
     ELSE
  LET close == consume(increment.p, "RIGHT_PAREN", "Expect ')' after for clauses.")
  IN IF close.thrown THEN close
     ELSE
  LET body == rule("statement", close.p)
  IN IF body.thrown THEN body
     ELSE Ok(body.p, forDesugar(initializer.node, condition.node, increment.node, body.node))

ifStatement(p) ==
  LET open == consume(p, "LEFT_PAREN", "Expect '(' after 'if'.")
  IN IF open.thrown THEN open
     ELSE
  LET condition == rule("expression", open.p)
  IN IF condition.thrown THEN condition
     ELSE
  LET close == consume(condition.p, "RIGHT_PAREN", "Expect ')' after if condition.")
  IN IF close.thrown THEN close
     ELSE
  LET thenBranch == rule("statement", close.p)
  IN IF thenBranch.thrown THEN thenBranch
     ELSE
  LET elseBranch == IF match(thenBranch.p, {"ELSE"}) THEN rule("statement", advance(thenBranch.p))
                    ELSE Ok(thenBranch.p, Null)
  IN IF elseBranch.thrown THEN elseBranch
     ELSE Ok(elseBranch.p, If(condition.node, thenBranch.node, elseBranch.node))

whileStatement(p) ==
  LET open == consume(p, "LEFT_PAREN", "Expect '(' after 'while'.")
  IN IF open.thrown THEN open
     ELSE
  LET condition == rule("expression", open.p)
  IN IF condition.thrown THEN condition
     ELSE
  LET close == consume(condition.p, "RIGHT_PAREN", "Expect ')' after condition.")
  IN IF close.thrown THEN close
     ELSE
  LET body == rule("statement", close.p)
  IN IF body.thrown THEN body ELSE Ok(body.p, While(condition.node, body.node))

\* the while loop of block()
blockLoop(p, statements) ==
  IF ~check(p, "RIGHT_BRACE") /\ ~isAtEnd(p)
  THEN LET stmt == rule("declaration", p)
       IN blockLoop(stmt.p, IF stmt.node # Null THEN Append(statements, stmt.node)
                            ELSE statements)
  ELSE Ok(p, statements)

block(p) ==
  LET statements == blockLoop(p, <<>>)
      close == consume(statements.p, "RIGHT_BRACE", "Expect '}'.")
  IN IF close.thrown THEN close ELSE Ok(close.p, statements.node)

rule(method, p) ==
  CASE method = "expression" -> expression(p)
    [] method = "assignment" -> assignment(p)
    [] method = "or" -> or(p)
    [] method = "and" -> and(p)
    [] method = "equality" -> equality(p)
    [] method = "comparison" -> comparison(p)
    [] method = "term" -> term(p)
    [] method = "factor" -> factor(p)
    [] method = "unary" -> unary(p)
    [] method = "call" -> parseCall(p)
    [] method = "primary" -> primary(p)
    [] method = "declaration" -> declaration(p)
    [] method = "function" -> function(p)
    [] method = "varDeclaration" -> varDeclaration(p)
    [] method = "statement" -> statement(p)
    [] method = "forStatement" -> forStatement(p)
    [] method = "ifStatement" -> ifStatement(p)
    [] method = "printStatement" -> printStatement(p)
    [] method = "returnStatement" -> returnStatement(p)
    [] method = "whileStatement" -> whileStatement(p)
    [] method = "block" -> block(p)
    [] method = "expressionStatement" -> expressionStatement(p)

\* if (stmt !== null) statements.push(stmt)
pushParsed(stmt, list) ==
  Ok(stmt.p, IF stmt.node # Null THEN Append(list, stmt.node) ELSE list)

\* parseStatements(), one turn of its loop: the parser and the list afterwards
parseNext(p, list) == pushParsed(rule("declaration", p), list)

\* ------------------------------------------------------------------------
\* Maps (the JavaScript Map): a function whose domain is the set of keys
\* ------------------------------------------------------------------------

EmptyMap == [key \in {} |-> Nil]

MapHas(map, key) == key \in DOMAIN map

\* Map.get: undefined for a missing key
MapGet(map, key) == IF key \in DOMAIN map THEN map[key] ELSE Undefined

MapSet(map, key, value) == [k \in DOMAIN map \cup {key} |-> IF k = key THEN value ELSE map[k]]

\* ------------------------------------------------------------------------
\* Resolver (class Resolver).  The resolver object r carries its own fields
\* and locals, the side table it fills through interpreter.resolve.
\* ------------------------------------------------------------------------

NewResolver ==
  [scopes |-> <<>>, currentFunction |-> "none", hadError |-> FALSE, diags |-> <<>>,
   locals |-> EmptyMap]

resolverError(r, token, message) ==
  [r EXCEPT !.hadError = TRUE,
            !.diags = Append(@, [fmt |-> "resolve", line |-> token.line,
                                 where |-> <<"'">> \o token.lexeme \o <<"'">>,
                                 msg |-> message])]

beginScope(r) == [r EXCEPT !.scopes = Append(@, EmptyMap)]

endScope(r) == [r EXCEPT !.scopes = SubSeq(@, 1, Len(@) - 1)]

\* a faulty declare that never looks whether the scope has the name already
declareUnchecked(r, name) ==
  IF Len(r.scopes) = 0 THEN r
  ELSE [r EXCEPT !.scopes[Len(r.scopes)] = MapSet(@, name.lexeme, FALSE)]

declare(r, name) ==
  IF Len(r.scopes) = 0 THEN r
  ELSE LET scope == r.scopes[Len(r.scopes)]
           reported == IF MapHas(scope, name.lexeme)
                       THEN resolverError(r, name,
                                          "Already a variable with this name in this scope.")
                       ELSE r
       IN [reported EXCEPT !.scopes[Len(r.scopes)] = MapSet(scope, name.lexeme, FALSE)]

\* a faulty define that leaves the name marked as not yet ready
defineNothing(r, name) == r

define(r, name) ==
  IF Len(r.scopes) = 0 THEN r
  ELSE [r EXCEPT !.scopes[Len(r.scopes)] = MapSet(@, name.lexeme, TRUE)]

\* Interpreter.resolve(expr, depth), applied to the side table
resolve(locals, expr, depth) == MapSet(locals, expr.id, depth)

RECURSIVE resolveLocalFrom(_, _, _, _)
\* the for loop of resolveLocal, i counting down (0-based scope index)
resolveLocalFrom(r, expr, name, i) ==
  IF i >= 0
  THEN IF MapHas(r.scopes[i + 1], name.lexeme)
       THEN [r EXCEPT !.locals = resolve(@, expr, Len(r.scopes) - 1 - i)]
       ELSE resolveLocalFrom(r, expr, name, i - 1)
  ELSE r

\* a faulty resolveLocal that picks the outermost scope that has the name
resolveLocalOutermost(r, expr, name) ==
  LET found == {i \in 1..Len(r.scopes) : MapHas(r.scopes[i], name.lexeme)}
  IN IF found = {} THEN r
     ELSE [r EXCEPT !.locals = resolve(@, expr, Len(r.scopes)
                                                - CHOOSE i \in found : \A j \in found : i <= j)]

resolveLocal(r, expr, name) == resolveLocalFrom(r, expr, name, Len(r.scopes) - 1)

RECURSIVE resolveStmt(_, _), resolveExpr(_, _), resolveStatements(_, _), resolveArgs(_, _),
          declareParams(_, _)

resolveStatements(r, list) ==
  IF list = <<>> THEN r
  ELSE LET next == resolveStmt(r, Head(list))
       IN IF next.hadError \in BOOLEAN THEN resolveStatements(next, Tail(list)) ELSE next

\* the loop over expr.args in visitCallExpr
resolveArgs(r, args) ==
  IF args = <<>> THEN r ELSE resolveArgs(resolveExpr(r, Head(args)), Tail(args))

\* the loop over func.params in resolveFunction
declareParams(r, params) ==
  IF params = <<>> THEN r
  ELSE declareParams(define(declare(r, Head(params)), Head(params)), Tail(params))

resolveFunction(r, func, type) ==
  LET enclosingFunction == r.currentFunction
      entered == beginScope([r EXCEPT !.currentFunction = type])
      body == resolveStatements(declareParams(entered, func.params), func.body)
  IN [endScope(body) EXCEPT !.currentFunction = enclosingFunction]

resolverVisitVariableExpr(r, expr) ==
  LET scope == r.scopes[Len(r.scopes)]
      checked == IF Len(r.scopes) > 0 /\ MapHas(scope, expr.name.lexeme)
                    /\ scope[expr.name.lexeme] = FALSE
                 THEN resolverError(r, expr.name,
                                    "Can't read local variable in its own initializer.")
                 ELSE r
  IN resolveLocal(checked, expr, expr.name)

\* visitReturnStmt: the test of currentFunction has an empty body, nothing is reported
resolverVisitReturnStmt(r, stmt) ==
  IF stmt.value # Null THEN resolveExpr(r, stmt.value) ELSE r

resolveStmt(r, stmt) ==
  CASE stmt.k = "Block" -> endScope(resolveStatements(beginScope(r), stmt.statements))
    [] stmt.k = "Var" ->
         LET declared == declare(r, stmt.name)
             initialized == IF stmt.initializer # Null
                            THEN resolveExpr(declared, stmt.initializer)
                            ELSE declared
         IN define(initialized, stmt.name)
    [] stmt.k = "Function" ->
         resolveFunction(define(declare(r, stmt.name), stmt.name), stmt, "function")
    [] stmt.k = "Expression" -> resolveExpr(r, stmt.expression)
    [] stmt.k = "If" ->
         LET branch == resolveStmt(resolveExpr(r, stmt.condition), stmt.thenBranch)
         IN IF stmt.elseBranch # Null THEN resolveStmt(branch, stmt.elseBranch) ELSE branch
    [] stmt.k = "Print" -> resolveExpr(r, stmt.expression)
    [] stmt.k = "Return" -> resolverVisitReturnStmt(r, stmt)
    [] stmt.k = "While" -> resolveStmt(resolveExpr(r, stmt.condition), stmt.body)

resolveExpr(r, expr) ==
  CASE expr.k = "Variable" -> resolverVisitVariableExpr(r, expr)
    [] expr.k = "Assign" -> resolveLocal(resolveExpr(r, expr.value), expr, expr.name)
    [] expr.k = "Binary" -> resolveExpr(resolveExpr(r, expr.left), expr.right)
    [] expr.k = "Call" -> resolveArgs(resolveExpr(r, expr.callee), expr.args)
    [] expr.k = "Grouping" -> resolveExpr(r, expr.expression)
    [] expr.k = "Literal" -> r
    [] expr.k = "Logical" -> resolveExpr(resolveExpr(r, expr.left), expr.right)
    [] expr.k = "Unary" -> resolveExpr(r, expr.right)

\* ------------------------------------------------------------------------
\* Numbers.  A finite decimal n / 10^d stands for the double; + - * and the
\* comparisons are exact on the decimals the programs of this model compute.
\* ------------------------------------------------------------------------

RECURSIVE Pow10(_)
Pow10(d) == IF d = 0 THEN 1 ELSE 10 * Pow10(d - 1)

Max(a, b) == IF a >= b THEN a ELSE b

\* the numerator of x at scale d >= x.d
Scaled(x, d) == x.n * Pow10(d - x.d)

NumAdd(x, y) == Norm(Scaled(x, Max(x.d, y.d)) + Scaled(y, Max(x.d, y.d)), Max(x.d, y.d))

NumSub(x, y) == Norm(Scaled(x, Max(x.d, y.d)) - Scaled(y, Max(x.d, y.d)), Max(x.d, y.d))

NumMul(x, y) == Norm(x.n * y.n, x.d + y.d)

NumNeg(x) == Norm(0 - x.n, x.d)

NumLess(x, y) == Scaled(x, Max(x.d, y.d)) < Scaled(y, Max(x.d, y.d))

\* digits kept after the point by a division that does not come out even
FracDigits == 3

\* x / y cut to FracDigits digits; the result of a division by zero is not a decimal and
\* is marked with its JavaScript name
NumDiv(x, y) ==
  IF y.n = 0
  THEN [t |-> "num", n |-> 0, d |-> 0,
        nonfinite |-> IF x.n = 0 THEN <<"N","a","N">>
                      ELSE IF x.n > 0 THEN <<"I","n","f","i","n","i","t","y">>
                      ELSE <<"-","I","n","f","i","n","i","t","y">>]
  ELSE LET s == Max(x.d, y.d)
           num == Scaled(x, s) * Pow10(FracDigits)
           den == Scaled(y, s)
           q == IF (num < 0) = (den < 0)
                THEN (IF num < 0 THEN 0 - num ELSE num) \div (IF den < 0 THEN 0 - den ELSE den)
                ELSE 0 - ((IF num < 0 THEN 0 - num ELSE num) \div (IF den < 0 THEN 0 - den ELSE den))
       IN Norm(q, FracDigits)

RECURSIVE NatToString(_)
NatToString(n) ==
  IF n < 10 THEN <<Digits[n + 1]>> ELSE NatToString(n \div 10) \o <<Digits[(n % 10) + 1]>>

RECURSIVE PadLeft(_, _)
PadLeft(ds, width) == IF Len(ds) >= width THEN ds ELSE PadLeft(<<"0">> \o ds, width)

\* Number.toString of a decimal: no point for an integer
NumToString(x) ==
  IF "nonfinite" \in DOMAIN x THEN x.nonfinite ELSE
  LET abs == IF x.n < 0 THEN 0 - x.n ELSE x.n
      sign == IF x.n < 0 THEN <<"-">> ELSE <<>>
  IN IF x.d = 0 THEN sign \o NatToString(abs)
     ELSE sign \o NatToString(abs \div Pow10(x.d)) \o <<".">>
               \o PadLeft(NatToString(abs % Pow10(x.d)), x.d)

endsWith(text, suffix) ==
  Len(text) >= Len(suffix) /\ SubSeq(text, Len(text) - Len(suffix) + 1, Len(text)) = suffix

\* ------------------------------------------------------------------------
\* Evaluator: values (class Interpreter, private helpers)
\* ------------------------------------------------------------------------

typeof(value) ==
  CASE value.t = "num" -> "number"
    [] value.t = "str" -> "string"
    [] value.t = "bool" -> "boolean"
    [] value.t = "undefined" -> "undefined"
    [] OTHER -> "object"

\* a faulty isTruthy that follows JavaScript: 0 and "" count as false too
isTruthyJavaScript(value) ==
  IF value = Nil THEN FALSE
  ELSE IF typeof(value) = "boolean" THEN value.v
  ELSE IF typeof(value) = "number" THEN value.n # 0
  ELSE IF typeof(value) = "string" THEN value.s # <<>>
  ELSE TRUE

isTruthy(value) ==
  IF value = Nil THEN FALSE
  ELSE IF typeof(value) = "boolean" THEN value.v
  ELSE TRUE

\* a === b: same variant and same value, callables by identity
StrictEquals(a, b) ==
  /\ a = b
  /\ ~(a.t = "num" /\ "nonfinite" \in DOMAIN a /\ a.nonfinite = <<"N","a","N">>)

\* a faulty isEqual that compares as JavaScript's == does: nil equals false
isEqualLoose(a, b) ==
  IF a = Nil \/ b = Nil THEN {a, b} \subseteq {Nil, Bool(FALSE)}
  ELSE StrictEquals(a, b)

isEqual(a, b) ==
  IF a = Nil /\ b = Nil THEN TRUE
  ELSE IF a = Nil THEN FALSE
  ELSE StrictEquals(a, b)

isCallable(value) == value.t \in {"fn", "native"}

\* exceptions: RuntimeError(token, message), ReturnException(value) and the TypeError
\* JavaScript raises for undefined.toString()
RuntimeError(token, message) == [x |-> "RuntimeError", token |-> token, message |-> message]

ReturnException(value) == [x |-> "ReturnException", value |-> value]

TypeError == [x |-> "TypeError"]

\* the outcome of an operator: a value, or an exception to throw
Returns(value) == [thrown |-> FALSE, value |-> value]

Throws(ex) == [thrown |-> TRUE, ex |-> ex]

checkNumberOperand(operator, operand) ==
  IF typeof(operand) = "number" THEN Returns(Nil)
  ELSE Throws(RuntimeError(operator, [msg |-> "Operand must be a number."]))

checkNumberOperands(operator, left, right) ==
  IF typeof(left) = "number" /\ typeof(right) = "number" THEN Returns(Nil)
  ELSE Throws(RuntimeError(operator, [msg |-> "Operands must be numbers."]))

\* visitUnaryExpr after the operand is evaluated
unaryOp(operator, right) ==
  CASE operator.type = "MINUS" ->
         IF checkNumberOperand(operator, right).thrown THEN checkNumberOperand(operator, right)
         ELSE Returns(NumNeg(right))
    [] operator.type = "BANG" -> Returns(Bool(~isTruthy(right)))
    [] OTHER -> Returns(Nil)

\* visitBinaryExpr after both operands are evaluated: the switch on the operator
binaryOp(operator, left, right) ==
  LET checked == checkNumberOperands(operator, left, right)
  IN CASE operator.type = "MINUS" -> IF checked.thrown THEN checked ELSE Returns(NumSub(left, right))
       [] operator.type = "PLUS" ->
            IF typeof(left) = "number" /\ typeof(right) = "number"
            THEN Returns(NumAdd(left, right))
            ELSE IF typeof(left) = "string" /\ typeof(right) = "string"
            THEN Returns(Str(left.s \o right.s))
            ELSE Throws(RuntimeError(operator,
                                     [msg |-> "Operands must be two numbers or two strings."]))
       [] operator.type = "SLASH" -> IF checked.thrown THEN checked ELSE Returns(NumDiv(left, right))
       [] operator.type = "STAR" -> IF checked.thrown THEN checked ELSE Returns(NumMul(left, right))
       [] operator.type = "GREATER" ->
            IF checked.thrown THEN checked ELSE Returns(Bool(NumLess(right, left)))
       [] operator.type = "GREATER_EQUAL" ->
            IF checked.thrown THEN checked ELSE Returns(Bool(~NumLess(left, right)))
       [] operator.type = "LESS" ->
            IF checked.thrown THEN checked ELSE Returns(Bool(NumLess(left, right)))
       [] operator.type = "LESS_EQUAL" ->
            IF checked.thrown THEN checked ELSE Returns(Bool(~NumLess(right, left)))
       [] operator.type = "BANG_EQUAL" -> Returns(Bool(~isEqual(left, right)))
       [] operator.type = "EQUAL_EQUAL" -> Returns(Bool(isEqual(left, right)))
       [] OTHER -> Returns(Nil)

\* stringify(value); funs is the heap of LoxFunction objects
stringify(funs, value) ==
  CASE value = Nil -> Returns(<<"n","i","l">>)
    [] typeof(value) = "number" ->
         LET text == NumToString(value)
         IN Returns(IF endsWith(text, <<".","0">>) THEN SubSeq(text, 1, Len(text) - 2) ELSE text)
    [] value.t = "bool" -> Returns(IF value.v THEN <<"t","r","u","e">> ELSE <<"f","a","l","s","e">>)
    [] value.t = "str" -> Returns(value.s)
    [] value.t = "fn" ->
         Returns(<<"<","f","n"," ">> \o funs[value.id].declaration.name.lexeme \o <<">">>)
    [] value.t = "native" -> Returns(<<"<","n","a","t","i","v","e"," ","f","n",">">>)
    [] value.t = "undefined" -> Throws(TypeError)

\* ------------------------------------------------------------------------
\* Environments (class Environment).  envs is the heap of Environment
\* objects, an environment is its index; enclosing = NoEnv is the null parent.
\* ------------------------------------------------------------------------

NoEnv == 0

\* a faulty Environment constructor that forgets its parent
NewEnvironmentDetached(enclosing) == [values |-> EmptyMap, enclosing |-> NoEnv]

NewEnvironment(enclosing) == [values |-> EmptyMap, enclosing |-> enclosing]

\* Environment.define applied to environment e of the heap
envDefine(envs, e, name, value) == [envs EXCEPT ![e].values = MapSet(@, name, value)]

RECURSIVE envGet(_, _, _)
envGet(envs, e, name) ==
  IF MapHas(envs[e].values, name.lexeme) THEN Returns(envs[e].values[name.lexeme])
  ELSE IF envs[e].enclosing # NoEnv THEN envGet(envs, envs[e].enclosing, name)
  ELSE Throws(RuntimeError(name, [msg |-> "Undefined variable 'X'.", X |-> name.lexeme]))

\* a faulty assign that defines the name where the walk starts
envAssignDefining(envs, e, name, value) ==
  Returns([envs EXCEPT ![e].values = MapSet(@, name.lexeme, value)])

RECURSIVE envAssign(_, _, _, _)
\* Environment.assign: the heap afterwards, or the exception
envAssign(envs, e, name, value) ==
  IF MapHas(envs[e].values, name.lexeme)
  THEN Returns([envs EXCEPT ![e].values = MapSet(@, name.lexeme, value)])
  ELSE IF envs[e].enclosing # NoEnv THEN envAssign(envs, envs[e].enclosing, name, value)
  ELSE Throws(RuntimeError(name, [msg |-> "Undefined variable 'X'.", X |-> name.lexeme]))

RECURSIVE ancestorFrom(_, _, _)
\* the for loop of ancestor: i hops left, a hop is skipped where there is no parent
ancestorFrom(envs, e, i) ==
  IF i > 0
  THEN ancestorFrom(envs, IF envs[e].enclosing # NoEnv THEN envs[e].enclosing ELSE e, i - 1)
  ELSE e

\* a faulty ancestor that stays where it is
ancestorNone(envs, e, distance) == e

ancestor(envs, e, distance) == ancestorFrom(envs, e, distance)

getAt(envs, e, distance, name) == MapGet(envs[ancestor(envs, e, distance)].values, name)

assignAt(envs, e, distance, name, value) ==
  [envs EXCEPT ![ancestor(envs, e, distance)].values = MapSet(@, name.lexeme, value)]

\* ------------------------------------------------------------------------
\* AstPrinter (class AstPrinter) and the literal column of tokenize
\* ------------------------------------------------------------------------

\* String.includes for one character
includes(text, c) == \E i \in 1..Len(text) : text[i] = c

\* let str = value.toString(); if (!str.includes('.')) str += '.0'
numberText(value) ==
  LET str == NumToString(value) IN IF ~includes(str, ".") THEN str \o <<".","0">> ELSE str

RECURSIVE astPrint(_), parenthesizeRest(_)
\* AstPrinter.print(expr): expr.accept(this), the visit methods
astPrint(expr) ==
  CASE expr.k = "Literal" ->
         (IF expr.value = Nil THEN <<"n","i","l">>
          ELSE IF typeof(expr.value) = "boolean"
          THEN (IF expr.value.v THEN <<"t","r","u","e">> ELSE <<"f","a","l","s","e">>)
          ELSE IF typeof(expr.value) = "number" THEN numberText(expr.value)
          ELSE expr.value.s)
    [] expr.k = "Unary" ->
         <<"(">> \o expr.operator.lexeme \o parenthesizeRest(<<expr.right>>)
    [] expr.k = "Binary" ->
         <<"(">> \o expr.operator.lexeme \o parenthesizeRest(<<expr.left, expr.right>>)
    [] expr.k = "Grouping" ->
         <<"(","g","r","o","u","p">> \o parenthesizeRest(<<expr.expression>>)
    [] expr.k = "Variable" -> expr.name.lexeme
    [] expr.k = "Assign" ->
         <<"(","="," ">> \o expr.name.lexeme \o <<" ">> \o astPrint(expr.value) \o <<")">>
    [] expr.k = "Logical" ->
         <<"(">> \o expr.operator.lexeme \o parenthesizeRest(<<expr.left, expr.right>>)
    [] expr.k = "Call" ->
         <<"(","c","a","l","l">> \o parenthesizeRest(<<expr.callee>> \o expr.args)

\* parenthesize(name, ...exprs) after `(${name}`: a space and the text of each
\* expression, then the closing parenthesis
parenthesizeRest(exprs) ==
  IF exprs = <<>> THEN <<")">>
  ELSE <<" ">> \o astPrint(Head(exprs)) \o parenthesizeRest(Tail(exprs))

\* tokenize: the literal column of a token
literalStr(token) ==
  IF token.type = "NUMBER" /\ token.literal # Nil THEN numberText(token.literal)
  ELSE IF token.type = "STRING" /\ token.literal # Nil THEN token.literal.s
  ELSE <<"n","u","l","l">>

\* tokenize: `${token.type} ${token.lexeme} ${literalStr}`, the type name in one piece
tokenLine(token) == <<token.type, " ">> \o token.lexeme \o <<" ">> \o literalStr(token)

\* ------------------------------------------------------------------------
\* The program: main execution (lines 1500-1584) and the evaluator
\* ------------------------------------------------------------------------

\* ---- Source texts ----------------------------------------------------

\*   print 1;
SrcPrintOne ==
  <<"p","r","i","n","t"," ","1",";">>

\*   print 1;
\*   @ print 2;
SrcScanError ==
  <<"p","r","i","n","t"," ","1",";","\n","@"," ","p","r","i","n","t"," ","2",";">>

\*   print 1;
\*   print ;
\*   print (2;
SrcParseError ==
  <<"p","r","i","n","t"," ","1",";","\n","p","r","i","n","t"," ",";","\n","p","r","i","n","t",
    " ","(","2",";">>

\*   print 1;
\*   print -"a";
\*   print 2;
SrcRuntimeError ==
  <<"p","r","i","n","t"," ","1",";","\n","p","r","i","n","t"," ","-","\"","a","\"",";","\n","p",
    "r","i","n","t"," ","2",";">>

\*   fun f(n) { while (n < 3) { if (n == 1) { print n + "x"; } n = n + 1; } }
\*   print "before";
\*   f(0);
\*   print "after";
SrcRuntimeInCall ==
  <<"f","u","n"," ","f","(","n",")"," ","{"," ","w","h","i","l","e"," ","(","n"," ","<"," ","3",
    ")"," ","{"," ","i","f"," ","(","n"," ","=","="," ","1",")"," ","{"," ","p","r","i","n","t",
    " ","n"," ","+"," ","\"","x","\"",";"," ","}"," ","n"," ","="," ","n"," ","+"," ","1",";",
    " ","}"," ","}","\n","p","r","i","n","t"," ","\"","b","e","f","o","r","e","\"",";","\n","f",
    "(","0",")",";","\n","p","r","i","n","t"," ","\"","a","f","t","e","r","\"",";">>

\*   var a;
\*   print a;
\*   a = 2;
\*   print a;
\*   b = 1;
\*   print a;
SrcUndefined ==
  <<"v","a","r"," ","a",";","\n","p","r","i","n","t"," ","a",";","\n","a"," ","="," ","2",";",
    "\n","p","r","i","n","t"," ","a",";","\n","b"," ","="," ","1",";","\n","p","r","i","n","t",
    " ","a",";">>

\*   for (var i = 0; i < 2; i = i + 1) print i;
\*   if (1 > 2) print "then"; else print "else";
\*   if (nil) print "then";
\*   print (1 + 2) * 3 / 4;
\*   print !true;
\*   print clock;
\*   print clock() >= 0;
SrcStatements ==
  <<"f","o","r"," ","(","v","a","r"," ","i"," ","="," ","0",";"," ","i"," ","<"," ","2",";"," ",
    "i"," ","="," ","i"," ","+"," ","1",")"," ","p","r","i","n","t"," ","i",";","\n","i","f",
    " ","(","1"," ",">"," ","2",")"," ","p","r","i","n","t"," ","\"","t","h","e","n","\"",";",
    " ","e","l","s","e"," ","p","r","i","n","t"," ","\"","e","l","s","e","\"",";","\n","i","f",
    " ","(","n","i","l",")"," ","p","r","i","n","t"," ","\"","t","h","e","n","\"",";","\n","p",
    "r","i","n","t"," ","(","1"," ","+"," ","2",")"," ","*"," ","3"," ","/"," ","4",";","\n",
    "p","r","i","n","t"," ","!","t","r","u","e",";","\n","p","r","i","n","t"," ","c","l","o",
    "c","k",";","\n","p","r","i","n","t"," ","c","l","o","c","k","(",")"," ",">","="," ","0",";">>

\*   fun makeCounter() {
\*     var i = 0;
\*     fun count() {
\*       i = i + 1;
\*       print i;
\*     }
\*     return count;
\*   }
\*   var counter = makeCounter();
\*   counter();
\*   counter();
\*   counter();
SrcCounterReadme ==
  <<"f","u","n"," ","m","a","k","e","C","o","u","n","t","e","r","(",")"," ","{","\n"," "," ",
    "v","a","r"," ","i"," ","="," ","0",";","\n"," "," ","f","u","n"," ","c","o","u","n","t",
    "(",")"," ","{","\n"," "," "," "," ","i"," ","="," ","i"," ","+"," ","1",";","\n"," "," ",
    " "," ","p","r","i","n","t"," ","i",";","\n"," "," ","}","\n"," "," ","r","e","t","u","r",
    "n"," ","c","o","u","n","t",";","\n","}","\n","v","a","r"," ","c","o","u","n","t","e","r",
    " ","="," ","m","a","k","e","C","o","u","n","t","e","r","(",")",";","\n","c","o","u","n",
    "t","e","r","(",")",";","\n","c","o","u","n","t","e","r","(",")",";","\n","c","o","u","n",
    "t","e","r","(",")",";">>

\*   fun makeCounter() { var i = 0; fun count() { i = i + 1; print i; } return count; }
\*   var a = makeCounter(); var b = makeCounter();
\*
SrcCounterDecl ==
  <<"f","u","n"," ","m","a","k","e","C","o","u","n","t","e","r","(",")"," ","{"," ","v","a","r",
    " ","i"," ","="," ","0",";"," ","f","u","n"," ","c","o","u","n","t","(",")"," ","{"," ","i",
    " ","="," ","i"," ","+"," ","1",";"," ","p","r","i","n","t"," ","i",";"," ","}"," ","r","e",
    "t","u","r","n"," ","c","o","u","n","t",";"," ","}","\n","v","a","r"," ","a"," ","="," ",
    "m","a","k","e","C","o","u","n","t","e","r","(",")",";"," ","v","a","r"," ","b"," ","="," ",
    "m","a","k","e","C","o","u","n","t","e","r","(",")",";","\n">>

\*   a();
SrcCallA ==
  <<"a","(",")",";">>

\*   b();
SrcCallB ==
  <<"b","(",")",";">>

\*   var x = 1;
\*   fun f() { print "called"; return true; }
\*   print false and f();
\*   print true or (x = 2);
\*   print x;
\*   print nil and -nil;
\*   print 0 or f();
\*   print "" and 3;
\*   print 1 and 2;
\*   print nil or "s";
\*   print true and f();
\*   print false or (x = 3);
\*   print x;
SrcLogical ==
  <<"v","a","r"," ","x"," ","="," ","1",";","\n","f","u","n"," ","f","(",")"," ","{"," ","p",
    "r","i","n","t"," ","\"","c","a","l","l","e","d","\"",";"," ","r","e","t","u","r","n"," ",
    "t","r","u","e",";"," ","}","\n","p","r","i","n","t"," ","f","a","l","s","e"," ","a","n",
    "d"," ","f","(",")",";","\n","p","r","i","n","t"," ","t","r","u","e"," ","o","r"," ","(",
    "x"," ","="," ","2",")",";","\n","p","r","i","n","t"," ","x",";","\n","p","r","i","n","t",
    " ","n","i","l"," ","a","n","d"," ","-","n","i","l",";","\n","p","r","i","n","t"," ","0",
    " ","o","r"," ","f","(",")",";","\n","p","r","i","n","t"," ","\"","\""," ","a","n","d"," ",
    "3",";","\n","p","r","i","n","t"," ","1"," ","a","n","d"," ","2",";","\n","p","r","i","n",
    "t"," ","n","i","l"," ","o","r"," ","\"","s","\"",";","\n","p","r","i","n","t"," ","t","r",
    "u","e"," ","a","n","d"," ","f","(",")",";","\n","p","r","i","n","t"," ","f","a","l","s",
    "e"," ","o","r"," ","(","x"," ","="," ","3",")",";","\n","p","r","i","n","t"," ","x",";">>

\*   print true or -nil;
\*   print false and -nil;
\*   print nil or -nil;
\*   print 1;
SrcLogicalError ==
  <<"p","r","i","n","t"," ","t","r","u","e"," ","o","r"," ","-","n","i","l",";","\n","p","r",
    "i","n","t"," ","f","a","l","s","e"," ","a","n","d"," ","-","n","i","l",";","\n","p","r",
    "i","n","t"," ","n","i","l"," ","o","r"," ","-","n","i","l",";","\n","p","r","i","n","t",
    " ","1",";">>

\*   { var a = "outer"; { var a = a; } }
SrcOwnInitShadow ==
  <<"{"," ","v","a","r"," ","a"," ","="," ","\"","o","u","t","e","r","\"",";"," ","{"," ","v",
    "a","r"," ","a"," ","="," ","a",";"," ","}"," ","}">>

\*   print 1;
\*   fun f() {
\*     var x = x + 1;
\*   }
\*   print 2;
SrcOwnInitFun ==
  <<"p","r","i","n","t"," ","1",";","\n","f","u","n"," ","f","(",")"," ","{","\n"," "," ","v",
    "a","r"," ","x"," ","="," ","x"," ","+"," ","1",";","\n","}","\n","p","r","i","n","t"," ",
    "2",";">>

\*   print 1;
\*   { var b = (1 + -b) or b;
\*     var c = 1; var c = g(c); }
SrcOwnInitTwice ==
  <<"p","r","i","n","t"," ","1",";","\n","{"," ","v","a","r"," ","b"," ","="," ","(","1"," ",
    "+"," ","-","b",")"," ","o","r"," ","b",";","\n"," "," ","v","a","r"," ","c"," ","="," ",
    "1",";"," ","v","a","r"," ","c"," ","="," ","g","(","c",")",";"," ","}">>

\*   var a = 1;
\*   var a = a + 1;
\*   print a;
\*   { var c = c = 1; print c; { var b = a; print b; } }
SrcOwnInitTop ==
  <<"v","a","r"," ","a"," ","="," ","1",";","\n","v","a","r"," ","a"," ","="," ","a"," ","+",
    " ","1",";","\n","p","r","i","n","t"," ","a",";","\n","{"," ","v","a","r"," ","c"," ","=",
    " ","c"," ","="," ","1",";"," ","p","r","i","n","t"," ","c",";"," ","{"," ","v","a","r"," ",
    "b"," ","="," ","a",";"," ","p","r","i","n","t"," ","b",";"," ","}"," ","}">>

\*   var a = a;
\*   print 1;
SrcOwnInitTopUndefined ==
  <<"v","a","r"," ","a"," ","="," ","a",";","\n","p","r","i","n","t"," ","1",";">>

\*   print 1;
\*   { var a = 1; var a = 2; }
\*   fun f(p, p) {}
\*   fun g(q) {
\*     var q = 1; }
\*   { var h; fun h() {} }
\*   fun k(r) { fun r() {} }
SrcRedeclared ==
  <<"p","r","i","n","t"," ","1",";","\n","{"," ","v","a","r"," ","a"," ","="," ","1",";"," ",
    "v","a","r"," ","a"," ","="," ","2",";"," ","}","\n","f","u","n"," ","f","(","p",","," ",
    "p",")"," ","{","}","\n","f","u","n"," ","g","(","q",")"," ","{","\n"," "," ","v","a","r",
    " ","q"," ","="," ","1",";"," ","}","\n","{"," ","v","a","r"," ","h",";"," ","f","u","n",
    " ","h","(",")"," ","{","}"," ","}","\n","f","u","n"," ","k","(","r",")"," ","{"," ","f",
    "u","n"," ","r","(",")"," ","{","}"," ","}">>

\*   var t = 1; var t = 2;
\*   { var u = 1; { var u = 2; print u; } print u; }
\*   fun k(v) { { var v = 1; print v; } print v; }
\*   k(3);
\*   fun t() {} print t;
SrcShadowed ==
  <<"v","a","r"," ","t"," ","="," ","1",";"," ","v","a","r"," ","t"," ","="," ","2",";","\n",
    "{"," ","v","a","r"," ","u"," ","="," ","1",";"," ","{"," ","v","a","r"," ","u"," ","="," ",
    "2",";"," ","p","r","i","n","t"," ","u",";"," ","}"," ","p","r","i","n","t"," ","u",";"," ",
    "}","\n","f","u","n"," ","k","(","v",")"," ","{"," ","{"," ","v","a","r"," ","v"," ","=",
    " ","1",";"," ","p","r","i","n","t"," ","v",";"," ","}"," ","p","r","i","n","t"," ","v",";",
    " ","}","\n","k","(","3",")",";","\n","f","u","n"," ","t","(",")"," ","{","}"," ","p","r",
    "i","n","t"," ","t",";">>

\*   print 1;
\*   return 2;
\*   print 3;
SrcTopReturn ==
  <<"p","r","i","n","t"," ","1",";","\n","r","e","t","u","r","n"," ","2",";","\n","p","r","i",
    "n","t"," ","3",";">>

\*   print 1;
\*   if (true) { return; }
\*   print 3;
SrcTopReturnNested ==
  <<"p","r","i","n","t"," ","1",";","\n","i","f"," ","(","t","r","u","e",")"," ","{"," ","r",
    "e","t","u","r","n",";"," ","}","\n","p","r","i","n","t"," ","3",";">>

\*   fun find(n) { var i = 0; while (true) { if (i == n) { { return i; } } i = i + 1; } }
\*   print find(2);
\*   print "next";
\*   fun nothing() { return; print "no"; }
\*   print nothing();
\*   fun noret() {}
\*   print noret();
SrcReturns ==
  <<"f","u","n"," ","f","i","n","d","(","n",")"," ","{"," ","v","a","r"," ","i"," ","="," ","0",
    ";"," ","w","h","i","l","e"," ","(","t","r","u","e",")"," ","{"," ","i","f"," ","(","i"," ",
    "=","="," ","n",")"," ","{"," ","{"," ","r","e","t","u","r","n"," ","i",";"," ","}"," ","}",
    " ","i"," ","="," ","i"," ","+"," ","1",";"," ","}"," ","}","\n","p","r","i","n","t"," ",
    "f","i","n","d","(","2",")",";","\n","p","r","i","n","t"," ","\"","n","e","x","t","\"",";",
    "\n","f","u","n"," ","n","o","t","h","i","n","g","(",")"," ","{"," ","r","e","t","u","r",
    "n",";"," ","p","r","i","n","t"," ","\"","n","o","\"",";"," ","}","\n","p","r","i","n","t",
    " ","n","o","t","h","i","n","g","(",")",";","\n","f","u","n"," ","n","o","r","e","t","(",
    ")"," ","{","}","\n","p","r","i","n","t"," ","n","o","r","e","t","(",")",";">>

\*   fun add(a, b) { return a + b; }
\*   fun twice(f, x) { return f(f(x, x), 1); }
\*   print add(1, 2);
\*   print twice(add, 2);
\*   print add;
SrcCalls ==
  <<"f","u","n"," ","a","d","d","(","a",","," ","b",")"," ","{"," ","r","e","t","u","r","n"," ",
    "a"," ","+"," ","b",";"," ","}","\n","f","u","n"," ","t","w","i","c","e","(","f",","," ",
    "x",")"," ","{"," ","r","e","t","u","r","n"," ","f","(","f","(","x",","," ","x",")",","," ",
    "1",")",";"," ","}","\n","p","r","i","n","t"," ","a","d","d","(","1",","," ","2",")",";",
    "\n","p","r","i","n","t"," ","t","w","i","c","e","(","a","d","d",","," ","2",")",";","\n",
    "p","r","i","n","t"," ","a","d","d",";">>

\*   fun f(a) { print "body"; }
\*   fun g() { print "g"; return f; }
\*   var s = "x";
\*
SrcCallPrelude ==
  <<"f","u","n"," ","f","(","a",")"," ","{"," ","p","r","i","n","t"," ","\"","b","o","d","y",
    "\"",";"," ","}","\n","f","u","n"," ","g","(",")"," ","{"," ","p","r","i","n","t"," ","\"",
    "g","\"",";"," ","r","e","t","u","r","n"," ","f",";"," ","}","\n","v","a","r"," ","s"," ",
    "="," ","\"","x","\"",";","\n">>

\*   "x"(g(),
\*    g()
\*   );
SrcCallString ==
  <<"\"","x","\"","(","g","(",")",",","\n"," ","g","(",")","\n",")",";">>

\*   nil();
SrcCallNil ==
  <<"n","i","l","(",")",";">>

\*   print s(1)
\*   ;
SrcCallNumber ==
  <<"p","r","i","n","t"," ","s","(","1",")","\n",";">>

\*   g()(1)(g());
SrcCallResult ==
  <<"g","(",")","(","1",")","(","g","(",")",")",";">>

\*   f(g(), g()
\*   );
SrcCallTooMany ==
  <<"f","(","g","(",")",","," ","g","(",")","\n",")",";">>

\*   f();
SrcCallTooFew ==
  <<"f","(",")",";">>

\*   clock(g());
SrcCallClock ==
  <<"c","l","o","c","k","(","g","(",")",")",";">>

\*   f(1, s(), g());
SrcCallInner ==
  <<"f","(","1",","," ","s","(",")",","," ","g","(",")",")",";">>

\*   print 1 + 2;
\*   print "a" + "b";
\*   print 3 - 1;
\*   print 2 * 2.5;
\*   print 7 / 2;
\*   print 1 < 2;
\*   print 2 <= 2;
\*   print 1 > 2;
\*   print 2 >= 3;
\*   print 1 == 1;
\*   print "a" != "a";
\*   print 1 == "1";
\*   print nil == nil;
\*   print nil != false;
\*   print true == 1;
\*   print clock == clock;
SrcBinary ==
  <<"p","r","i","n","t"," ","1"," ","+"," ","2",";","\n","p","r","i","n","t"," ","\"","a","\"",
    " ","+"," ","\"","b","\"",";","\n","p","r","i","n","t"," ","3"," ","-"," ","1",";","\n","p",
    "r","i","n","t"," ","2"," ","*"," ","2",".","5",";","\n","p","r","i","n","t"," ","7"," ",
    "/"," ","2",";","\n","p","r","i","n","t"," ","1"," ","<"," ","2",";","\n","p","r","i","n",
    "t"," ","2"," ","<","="," ","2",";","\n","p","r","i","n","t"," ","1"," ",">"," ","2",";",
    "\n","p","r","i","n","t"," ","2"," ",">","="," ","3",";","\n","p","r","i","n","t"," ","1",
    " ","=","="," ","1",";","\n","p","r","i","n","t"," ","\"","a","\""," ","!","="," ","\"","a",
    "\"",";","\n","p","r","i","n","t"," ","1"," ","=","="," ","\"","1","\"",";","\n","p","r",
    "i","n","t"," ","n","i","l"," ","=","="," ","n","i","l",";","\n","p","r","i","n","t"," ",
    "n","i","l"," ","!","="," ","f","a","l","s","e",";","\n","p","r","i","n","t"," ","t","r",
    "u","e"," ","=","="," ","1",";","\n","p","r","i","n","t"," ","c","l","o","c","k"," ","=",
    "="," ","c","l","o","c","k",";">>

\*   fun p(v) { print v; return v; }
\*   print p(
SrcBinaryPrelude ==
  <<"f","u","n"," ","p","(","v",")"," ","{"," ","p","r","i","n","t"," ","v",";"," ","r","e","t",
    "u","r","n"," ","v",";"," ","}","\n","p","r","i","n","t"," ","p","(">>

\*   );
\*   print "end";
SrcBinaryEnd ==
  <<")",";","\n","p","r","i","n","t"," ","\"","e","n","d","\"",";">>

\*   fun f() {}
\*   fun mk() { fun i() {} return i; }
\*   var c = mk(); var d = mk();
\*   var a =
SrcEqualityPrelude ==
  <<"f","u","n"," ","f","(",")"," ","{","}","\n","f","u","n"," ","m","k","(",")"," ","{"," ",
    "f","u","n"," ","i","(",")"," ","{","}"," ","r","e","t","u","r","n"," ","i",";"," ","}",
    "\n","v","a","r"," ","c"," ","="," ","m","k","(",")",";"," ","v","a","r"," ","d"," ","=",
    " ","m","k","(",")",";","\n","v","a","r"," ","a"," ","="," ">>

\*   ;
\*   var b =
SrcEqualityMiddle ==
  <<";","\n","v","a","r"," ","b"," ","="," ">>

\*   ;
\*   print a == b; print b == a; print a != b; print a == a;
SrcEqualityEnd ==
  <<";","\n","p","r","i","n","t"," ","a"," ","=","="," ","b",";"," ","p","r","i","n","t"," ",
    "b"," ","=","="," ","a",";"," ","p","r","i","n","t"," ","a"," ","!","="," ","b",";"," ","p",
    "r","i","n","t"," ","a"," ","=","="," ","a",";">>

\*   for (var i = 0; i < 3; i = i + 1) print i;
SrcFor ==
  <<"f","o","r"," ","(","v","a","r"," ","i"," ","="," ","0",";"," ","i"," ","<"," ","3",";"," ",
    "i"," ","="," ","i"," ","+"," ","1",")"," ","p","r","i","n","t"," ","i",";">>

\*   fun f() {
\*     var i = 0;
\*     for (
SrcForPrelude ==
  <<"f","u","n"," ","f","(",")"," ","{","\n"," "," ","v","a","r"," ","i"," ","="," ","0",";",
    "\n"," "," ","f","o","r"," ","(">>

\*   var i = 0;
SrcForVar ==
  <<"v","a","r"," ","i"," ","="," ","0",";">>

\*   i = 0;
SrcForAssign ==
  <<"i"," ","="," ","0",";">>

\*   i < 2
SrcForCondition ==
  <<"i"," ","<"," ","2">>

\*   i = i + 1
SrcForIncrement ==
  <<"i"," ","="," ","i"," ","+"," ","1">>

\*   ) { if (i > 1) return; print i;
SrcForBody ==
  <<")"," ","{"," ","i","f"," ","(","i"," ",">"," ","1",")"," ","r","e","t","u","r","n",";"," ",
    "p","r","i","n","t"," ","i",";"," ">>

\*   i = i + 1;
SrcForStep ==
  <<"i"," ","="," ","i"," ","+"," ","1",";"," ">>

\*   }
\*     print "done";
\*   }
\*   f();
SrcForEnd ==
  <<"}","\n"," "," ","p","r","i","n","t"," ","\"","d","o","n","e","\"",";","\n","}","\n","f",
    "(",")",";">>

\*   a - b - c
SrcExprSubtract ==
  <<"a"," ","-"," ","b"," ","-"," ","c">>

\*   a or b and c
SrcExprLogical ==
  <<"a"," ","o","r"," ","b"," ","a","n","d"," ","c">>

\*   -a * b
SrcExprUnary ==
  <<"-","a"," ","*"," ","b">>

\*   (1 + 2) * -3
SrcExprGroup ==
  <<"(","1"," ","+"," ","2",")"," ","*"," ","-","3">>

\*   (a) = 1
SrcTargetGroup ==
  <<"(","a",")"," ","="," ","1">>

\*   a + b = c
SrcTargetBinary ==
  <<"a"," ","+"," ","b"," ","="," ","c">>

\*   f() = 1
SrcTargetCall ==
  <<"f","(",")"," ","="," ","1">>

\*   f((a) = 1, b)
SrcTargetArgument ==
  <<"f","(","(","a",")"," ","="," ","1",","," ","b",")">>

\*   a = (b) = c
SrcTargetNested ==
  <<"a"," ","="," ","(","b",")"," ","="," ","c">>

\*   f((a) = 1, )
SrcTargetThenThrown ==
  <<"f","(","(","a",")"," ","="," ","1",","," ",")">>

\*   (1 + 2
SrcExprUnclosed ==
  <<"(","1"," ","+"," ","2">>

\*   1 +
SrcExprMissing ==
  <<"1"," ","+">>

\*
SrcExprEmpty ==
  <<>>

\*   1 2
SrcExprTrailing ==
  <<"1"," ","2">>

\*   a = 1 )
SrcExprTrailingParen ==
  <<"a"," ","="," ","1"," ",")">>

\*   (){},.-+;*/ ! != = == < <= > >= 12.50 3. x_1 while "s t"
SrcScanKinds ==
  <<"(",")","{","}",",",".","-","+",";","*","/"," ","!"," ","!","="," ","="," ","=","="," ","<",
    " ","<","="," ",">"," ",">","="," ","1","2",".","5","0"," ","3","."," ","x","_","1"," ","w",
    "h","i","l","e"," ","\"","s"," ","t","\"">>

\*   a // c @
\*   	"x
\*   y"
\*   b @ #
\*   "open
\*
\*
SrcScanLines ==
  <<"a"," ","/","/"," ","c"," ","@","\n","\t","\"","x","\n","y","\"","\r","\n","b"," ","@"," ",
    "#","\n","\"","o","p","e","n","\n","\n">>

\*   print 1 2; print 3;
\*   var = 4;
\*   print 5;
SrcRecoverTop ==
  <<"p","r","i","n","t"," ","1"," ","2",";"," ","p","r","i","n","t"," ","3",";","\n","v","a",
    "r"," ","="," ","4",";","\n","p","r","i","n","t"," ","5",";">>

\*   { print 1 +; print 2; } print 3;
SrcRecoverBlock ==
  <<"{"," ","p","r","i","n","t"," ","1"," ","+",";"," ","p","r","i","n","t"," ","2",";"," ","}",
    " ","p","r","i","n","t"," ","3",";">>

\*   { print (1 } print 2; print 3;
SrcRecoverPastBrace ==
  <<"{"," ","p","r","i","n","t"," ","(","1"," ","}"," ","p","r","i","n","t"," ","2",";"," ","p",
    "r","i","n","t"," ","3",";">>

\*   var 1 class 2 fun ( if 3 while 4 for 5 return 6 print 7 var a; print 8;
SrcRecoverKeywords ==
  <<"v","a","r"," ","1"," ","c","l","a","s","s"," ","2"," ","f","u","n"," ","("," ","i","f"," ",
    "3"," ","w","h","i","l","e"," ","4"," ","f","o","r"," ","5"," ","r","e","t","u","r","n"," ",
    "6"," ","p","r","i","n","t"," ","7"," ","v","a","r"," ","a",";"," ","p","r","i","n","t"," ",
    "8",";">>

\*   fun f(a, 1) { print a; }
\*   fun g() { var = 2; return 3; }
\*   g();
SrcRecoverFunction ==
  <<"f","u","n"," ","f","(","a",","," ","1",")"," ","{"," ","p","r","i","n","t"," ","a",";"," ",
    "}","\n","f","u","n"," ","g","(",")"," ","{"," ","v","a","r"," ","="," ","2",";"," ","r",
    "e","t","u","r","n"," ","3",";"," ","}","\n","g","(",")",";">>

\*   print 1; { print 2
SrcRecoverAtEnd ==
  <<"p","r","i","n","t"," ","1",";"," ","{"," ","p","r","i","n","t"," ","2">>

\*   1 = 2; print 3;
SrcRecoverTarget ==
  <<"1"," ","="," ","2",";"," ","p","r","i","n","t"," ","3",";">>

\*   var g = "g";
\*   fun outer(p) {
\*     var a = p;
\*     fun middle() {
\*       var b = a + 1;
\*       fun inner() { a = a + b; return a; }
\*       return inner;
\*     }
\*     { var a = "shadow"; print a; g = a; }
\*     return middle();
\*   }
\*   var k = outer(1);
\*   print k();
\*   print k();
\*   print g;
\*   fun fact(n) { if (n <= 1) return 1; return n * fact(n - 1); }
\*   print fact(3);
SrcAgreement ==
  <<"v","a","r"," ","g"," ","="," ","\"","g","\"",";","\n","f","u","n"," ","o","u","t","e","r",
    "(","p",")"," ","{","\n"," "," ","v","a","r"," ","a"," ","="," ","p",";","\n"," "," ","f",
    "u","n"," ","m","i","d","d","l","e","(",")"," ","{","\n"," "," "," "," ","v","a","r"," ",
    "b"," ","="," ","a"," ","+"," ","1",";","\n"," "," "," "," ","f","u","n"," ","i","n","n",
    "e","r","(",")"," ","{"," ","a"," ","="," ","a"," ","+"," ","b",";"," ","r","e","t","u","r",
    "n"," ","a",";"," ","}","\n"," "," "," "," ","r","e","t","u","r","n"," ","i","n","n","e",
    "r",";","\n"," "," ","}","\n"," "," ","{"," ","v","a","r"," ","a"," ","="," ","\"","s","h",
    "a","d","o","w","\"",";"," ","p","r","i","n","t"," ","a",";"," ","g"," ","="," ","a",";",
    " ","}","\n"," "," ","r","e","t","u","r","n"," ","m","i","d","d","l","e","(",")",";","\n",
    "}","\n","v","a","r"," ","k"," ","="," ","o","u","t","e","r","(","1",")",";","\n","p","r",
    "i","n","t"," ","k","(",")",";","\n","p","r","i","n","t"," ","k","(",")",";","\n","p","r",
    "i","n","t"," ","g",";","\n","f","u","n"," ","f","a","c","t","(","n",")"," ","{"," ","i",
    "f"," ","(","n"," ","<","="," ","1",")"," ","r","e","t","u","r","n"," ","1",";"," ","r","e",
    "t","u","r","n"," ","n"," ","*"," ","f","a","c","t","(","n"," ","-"," ","1",")",";"," ","}",
    "\n","p","r","i","n","t"," ","f","a","c","t","(","3",")",";">>

\*   { var c = c = 1; print c; }
SrcOwnInitAssign ==
  <<"{"," ","v","a","r"," ","c"," ","="," ","c"," ","="," ","1",";"," ","p","r","i","n","t"," ",
    "c",";"," ","}">>

\*   var a = "global";
\*   {
\*     fun show() { print a; }
\*     show();
\*     var a = "block";
\*     show();
\*   }
SrcStatic ==
  <<"v","a","r"," ","a"," ","="," ","\"","g","l","o","b","a","l","\"",";","\n","{","\n"," "," ",
    "f","u","n"," ","s","h","o","w","(",")"," ","{"," ","p","r","i","n","t"," ","a",";"," ","}",
    "\n"," "," ","s","h","o","w","(",")",";","\n"," "," ","v","a","r"," ","a"," ","="," ","\"",
    "b","l","o","c","k","\"",";","\n"," "," ","s","h","o","w","(",")",";","\n","}">>

\*   var a = "outer";
\*   {
\*
SrcStaticTop ==
  <<"v","a","r"," ","a"," ","="," ","\"","o","u","t","e","r","\"",";","\n","{","\n">>

\*   { var a = "outer";
\*   {
\*
SrcStaticNested ==
  <<"{"," ","v","a","r"," ","a"," ","="," ","\"","o","u","t","e","r","\"",";","\n","{","\n">>

\*     fun show() { print a; }
\*
SrcStaticRead ==
  <<" "," ","f","u","n"," ","s","h","o","w","(",")"," ","{"," ","p","r","i","n","t"," ","a",";",
    " ","}","\n">>

\*     fun show() { a = a + "!"; print a; }
\*
SrcStaticAssign ==
  <<" "," ","f","u","n"," ","s","h","o","w","(",")"," ","{"," ","a"," ","="," ","a"," ","+"," ",
    "\"","!","\"",";"," ","p","r","i","n","t"," ","a",";"," ","}","\n">>

\*     show();
\*     var a = "block";
\*     show();
\*     print a;
\*   }
\*   print a;
SrcStaticCalls ==
  <<" "," ","s","h","o","w","(",")",";","\n"," "," ","v","a","r"," ","a"," ","="," ","\"","b",
    "l","o","c","k","\"",";","\n"," "," ","s","h","o","w","(",")",";","\n"," "," ","p","r","i",
    "n","t"," ","a",";","\n","}","\n","p","r","i","n","t"," ","a",";">>

\*
\*   }
SrcStaticNestedEnd ==
  <<"\n","}">>

\*   var g = 1;
\*   {
\*     var a = 1;
\*     print later;
\*     var later = 2;
\*     {
\*       var b =
\*         a;
\*       {
\*         var a =
\*           b;
\*         print a;
\*         a =
\*           g;
\*       }
\*       fun f(p) {
\*         print p;
\*         print a;
\*         print f;
\*         g =
\*           p;
\*         h = 1;
\*       }
\*     }
\*   }
\*   var h;
SrcDistances ==
  <<"v","a","r"," ","g"," ","="," ","1",";","\n","{","\n"," "," ","v","a","r"," ","a"," ","=",
    " ","1",";","\n"," "," ","p","r","i","n","t"," ","l","a","t","e","r",";","\n"," "," ","v",
    "a","r"," ","l","a","t","e","r"," ","="," ","2",";","\n"," "," ","{","\n"," "," "," "," ",
    "v","a","r"," ","b"," ","=","\n"," "," "," "," "," "," ","a",";","\n"," "," "," "," ","{",
    "\n"," "," "," "," "," "," ","v","a","r"," ","a"," ","=","\n"," "," "," "," "," "," "," ",
    " ","b",";","\n"," "," "," "," "," "," ","p","r","i","n","t"," ","a",";","\n"," "," "," ",
    " "," "," ","a"," ","=","\n"," "," "," "," "," "," "," "," ","g",";","\n"," "," "," "," ",
    "}","\n"," "," "," "," ","f","u","n"," ","f","(","p",")"," ","{","\n"," "," "," "," "," ",
    " ","p","r","i","n","t"," ","p",";","\n"," "," "," "," "," "," ","p","r","i","n","t"," ",
    "a",";","\n"," "," "," "," "," "," ","p","r","i","n","t"," ","f",";","\n"," "," "," "," ",
    " "," ","g"," ","=","\n"," "," "," "," "," "," "," "," ","p",";","\n"," "," "," "," "," ",
    " ","h"," ","="," ","1",";","\n"," "," "," "," ","}","\n"," "," ","}","\n","}","\n","v","a",
    "r"," ","h",";">>

\*   var x = "global";
\*   fun f(n) {
\*     var x = "f";
\*     { var x = "block";
\*       while (true) { var x = "loop"; if (n == 1) return x; if (n == 2) return; { -nil; } }
\*     }
\*   }
\*   { var x = "outer"; print f(1); print x; print f(2); print x; }
\*   print x;
\*   { var x = "last"; { f(3); } }
\*   print x;
SrcRestore ==
  <<"v","a","r"," ","x"," ","="," ","\"","g","l","o","b","a","l","\"",";","\n","f","u","n"," ",
    "f","(","n",")"," ","{","\n"," "," ","v","a","r"," ","x"," ","="," ","\"","f","\"",";","\n",
    " "," ","{"," ","v","a","r"," ","x"," ","="," ","\"","b","l","o","c","k","\"",";","\n"," ",
    " "," "," ","w","h","i","l","e"," ","(","t","r","u","e",")"," ","{"," ","v","a","r"," ","x",
    " ","="," ","\"","l","o","o","p","\"",";"," ","i","f"," ","(","n"," ","=","="," ","1",")",
    " ","r","e","t","u","r","n"," ","x",";"," ","i","f"," ","(","n"," ","=","="," ","2",")"," ",
    "r","e","t","u","r","n",";"," ","{"," ","-","n","i","l",";"," ","}"," ","}","\n"," "," ",
    "}","\n","}","\n","{"," ","v","a","r"," ","x"," ","="," ","\"","o","u","t","e","r","\"",";",
    " ","p","r","i","n","t"," ","f","(","1",")",";"," ","p","r","i","n","t"," ","x",";"," ","p",
    "r","i","n","t"," ","f","(","2",")",";"," ","p","r","i","n","t"," ","x",";"," ","}","\n",
    "p","r","i","n","t"," ","x",";","\n","{"," ","v","a","r"," ","x"," ","="," ","\"","l","a",
    "s","t","\"",";"," ","{"," ","f","(","3",")",";"," ","}"," ","}","\n","p","r","i","n","t",
    " ","x",";">>

\*   var x = "global";
\*   var n;
\*   print n;
\*   {
\*     var x = "outer";
\*     var y;
\*     print y;
\*     {
\*       var x = "inner";
\*       fun x2() {}
\*       x = "changed";
\*       print x;
\*     }
\*     print x;
\*     fun f(x) { var y = x; x = "param"; return y; }
\*     print f("arg");
\*     print x;
\*   }
\*   print x;
\*   x = "assigned";
\*   print x;
SrcDefine ==
  <<"v","a","r"," ","x"," ","="," ","\"","g","l","o","b","a","l","\"",";","\n","v","a","r"," ",
    "n",";","\n","p","r","i","n","t"," ","n",";","\n","{","\n"," "," ","v","a","r"," ","x"," ",
    "="," ","\"","o","u","t","e","r","\"",";","\n"," "," ","v","a","r"," ","y",";","\n"," "," ",
    "p","r","i","n","t"," ","y",";","\n"," "," ","{","\n"," "," "," "," ","v","a","r"," ","x",
    " ","="," ","\"","i","n","n","e","r","\"",";","\n"," "," "," "," ","f","u","n"," ","x","2",
    "(",")"," ","{","}","\n"," "," "," "," ","x"," ","="," ","\"","c","h","a","n","g","e","d",
    "\"",";","\n"," "," "," "," ","p","r","i","n","t"," ","x",";","\n"," "," ","}","\n"," "," ",
    "p","r","i","n","t"," ","x",";","\n"," "," ","f","u","n"," ","f","(","x",")"," ","{"," ",
    "v","a","r"," ","y"," ","="," ","x",";"," ","x"," ","="," ","\"","p","a","r","a","m","\"",
    ";"," ","r","e","t","u","r","n"," ","y",";"," ","}","\n"," "," ","p","r","i","n","t"," ",
    "f","(","\"","a","r","g","\"",")",";","\n"," "," ","p","r","i","n","t"," ","x",";","\n","}",
    "\n","p","r","i","n","t"," ","x",";","\n","x"," ","="," ","\"","a","s","s","i","g","n","e",
    "d","\"",";","\n","p","r","i","n","t"," ","x",";">>

\*   print 1;
\*   print
\*     missing;
\*   print 2;
SrcUndefinedRead ==
  <<"p","r","i","n","t"," ","1",";","\n","p","r","i","n","t","\n"," "," ","m","i","s","s","i",
    "n","g",";","\n","p","r","i","n","t"," ","2",";">>

\*   var a = 1;
\*   fun p(v) { print v; return v; }
\*   missing = p(2);
\*   print 3;
SrcUndefinedAssign ==
  <<"v","a","r"," ","a"," ","="," ","1",";","\n","f","u","n"," ","p","(","v",")"," ","{"," ",
    "p","r","i","n","t"," ","v",";"," ","r","e","t","u","r","n"," ","v",";"," ","}","\n","m",
    "i","s","s","i","n","g"," ","="," ","p","(","2",")",";","\n","p","r","i","n","t"," ","3",";">>

\*   {
\*     fun show() { print
\*       a; }
\*     var a = "block";
\*     show();
\*   }
SrcUndefinedLocalRead ==
  <<"{","\n"," "," ","f","u","n"," ","s","h","o","w","(",")"," ","{"," ","p","r","i","n","t",
    "\n"," "," "," "," ","a",";"," ","}","\n"," "," ","v","a","r"," ","a"," ","="," ","\"","b",
    "l","o","c","k","\"",";","\n"," "," ","s","h","o","w","(",")",";","\n","}">>

\*   {
\*     fun set() {
\*       a = 1; }
\*     var a = "block";
\*     set();
\*     print a;
\*   }
SrcUndefinedLocalAssign ==
  <<"{","\n"," "," ","f","u","n"," ","s","e","t","(",")"," ","{","\n"," "," "," "," ","a"," ",
    "="," ","1",";"," ","}","\n"," "," ","v","a","r"," ","a"," ","="," ","\"","b","l","o","c",
    "k","\"",";","\n"," "," ","s","e","t","(",")",";","\n"," "," ","p","r","i","n","t"," ","a",
    ";","\n","}">>

\* ---- end of the source texts ----------------------------------------

Commands == {"run"}

RECURSIVE Concat(_)
\* the texts one after the other
Concat(texts) == IF texts = <<>> THEN <<>> ELSE Head(texts) \o Concat(Tail(texts))

\* number of calls a counter program makes
MaxCalls == 3

\* the calls of a counter program: each one of a() or b()
CallSeqs == [1..MaxCalls -> {SrcCallA, SrcCallB}]

\* two counters, then the calls
CounterProgram(calls) == SrcCounterDecl \o Concat(calls)

CounterPrograms == {CounterProgram(calls) : calls \in CallSeqs}

CallPrograms ==
  {SrcCallPrelude \o text :
     text \in {SrcCallString, SrcCallNil, SrcCallNumber, SrcCallResult, SrcCallTooMany,
               SrcCallTooFew, SrcCallClock, SrcCallInner}}

\* operand texts: a number, a string, nil
OperandTexts == {<<"1">>, <<"\"","a","\"">>, <<"n","i","l">>}

OperatorTexts ==
  {<<"-">>, <<"+">>, <<"/">>, <<"*">>, <<">">>, <<">","=">>, <<"<">>, <<"<","=">>, <<"!","=">>,
   <<"=","=">>}

\* print p(L) op p(R); where p prints its argument and returns it
BinaryProgram(left, op, right) ==
  SrcBinaryPrelude \o left \o <<")"," ">> \o op \o <<" ","p","(">> \o right \o SrcBinaryEnd

BinaryPrograms ==
  {BinaryProgram(left, op, right) :
     left \in OperandTexts, op \in OperatorTexts, right \in OperandTexts}

\* an operand of the equality programs: its text, and what it denotes (variant and key:
\* two operands denote the same value exactly when both agree)
Operand(text, variant, key) == [text |-> text, variant |-> variant, key |-> key]

EqualityOperands ==
  {Operand(<<"n","i","l">>, "nil", 0), Operand(<<"t","r","u","e">>, "boolean", 1),
   Operand(<<"f","a","l","s","e">>, "boolean", 0), Operand(<<"0">>, "number", 0),
   Operand(<<"1">>, "number", 1), Operand(<<"1",".","0">>, "number", 1),
   Operand(<<"\"","\"">>, "string", 0), Operand(<<"\"","1","\"">>, "string", 1),
   Operand(<<"f">>, "callable", 0), Operand(<<"c">>, "callable", 1),
   Operand(<<"d">>, "callable", 2), Operand(<<"c","l","o","c","k">>, "callable", 3)}

\* var a = L; var b = R; print a == b; print b == a; print a != b; print a == a;
EqualityProgram(left, right) ==
  SrcEqualityPrelude \o left \o SrcEqualityMiddle \o right \o SrcEqualityEnd

EqualityPrograms ==
  {EqualityProgram(left.text, right.text) : left \in EqualityOperands, right \in EqualityOperands}

\* a binary, logical or assignment operator: its lexeme and the level of the grammar
\* that parses it, 1 for assignment up to 7 for factor
Operator(text, level) == [text |-> text, level |-> level]

ExpressionOperators ==
  {Operator(<<"=">>, 1), Operator(<<"o","r">>, 2), Operator(<<"a","n","d">>, 3),
   Operator(<<"=","=">>, 4), Operator(<<"!","=">>, 4), Operator(<<"<">>, 5),
   Operator(<<"<","=">>, 5), Operator(<<">">>, 5), Operator(<<">","=">>, 5),
   Operator(<<"+">>, 6), Operator(<<"-">>, 6), Operator(<<"*">>, 7), Operator(<<"/">>, 7)}

\* an operand at the unary level or above: its text, how AstPrinter writes its tree,
\* and whether it is a bare variable
Term(text, printed, variable) == [text |-> text, printed |-> printed, variable |-> variable]

FirstTerms == {Term(<<"a">>, <<"a">>, TRUE), Term(<<"-","a">>, <<"(","-"," ","a",")">>, FALSE)}

SecondTerms ==
  {Term(<<"b">>, <<"b">>, TRUE),
   Term(<<"f","(","b",")">>, <<"(","c","a","l","l"," ","f"," ","b",")">>, FALSE)}

ThirdTerms ==
  {Term(<<"c">>, <<"c">>, TRUE),
   Term(<<"!","-","1">>, <<"(","!"," ","(","-"," ","1",".","0",")",")">>, FALSE)}

\* term operator term operator term
ExpressionText(x1, op1, x2, op2, x3) ==
  x1.text \o <<" ">> \o op1.text \o <<" ">> \o x2.text \o <<" ">> \o op2.text \o <<" ">> \o x3.text

ExpressionTexts ==
  {ExpressionText(x1, op1, x2, op2, x3) :
     x1 \in FirstTerms, op1 \in ExpressionOperators, x2 \in SecondTerms,
     op2 \in ExpressionOperators, x3 \in ThirdTerms}

Expressions ==
  {SrcExprSubtract, SrcExprLogical, SrcExprUnary, SrcExprGroup, SrcTargetGroup, SrcTargetBinary,
   SrcTargetCall, SrcTargetArgument, SrcTargetNested, SrcTargetThenThrown, SrcExprUnclosed,
   SrcExprMissing, SrcExprEmpty, SrcExprTrailing, SrcExprTrailingParen}
    \cup ExpressionTexts

\* the initializer of a for: a var declaration, an expression statement or none
ForInitializers == {"var", "assign", "none"}

\* fun f() { var i = 0; for (I; C; U) { if (i > 1) return; print i; S } print "done"; } f();
\* where S steps i when there is no increment U
ForProgram(init, cond, incr) ==
  SrcForPrelude
    \o (IF init = "var" THEN SrcForVar ELSE IF init = "assign" THEN SrcForAssign ELSE <<";">>)
    \o (IF cond THEN <<" ">> \o SrcForCondition ELSE <<>>) \o <<";">>
    \o (IF incr THEN <<" ">> \o SrcForIncrement ELSE <<>>)
    \o SrcForBody \o (IF incr THEN <<>> ELSE SrcForStep) \o SrcForEnd

ForPrograms ==
  {ForProgram(init, cond, incr) : init \in ForInitializers, cond \in BOOLEAN, incr \in BOOLEAN}

\* length of the scanned texts
MaxSourceLen == 4

\* a quote, a newline, a space, a slash, an unexpected character, a letter, a digit, =
\* and the dot
ScanAlphabet == {"\"", "\n", " ", "/", "@", "a", "1", "=", "."}

\* every text over the alphabet up to the length, and two longer ones
ScanTexts ==
  UNION {[1..n -> ScanAlphabet] : n \in 0..MaxSourceLen} \cup {SrcScanKinds, SrcScanLines}

\* number of tokens of the token texts
MaxTokens == 3

\* braces, the semicolon, parentheses, two keywords, a name and the equal sign
TokenTexts ==
  {<<"{">>, <<"}">>, <<";">>, <<"(">>, <<")">>, <<"v","a","r">>, <<"p","r","i","n","t">>,
   <<"a">>, <<"=">>}

RECURSIVE Spaced(_)
\* the texts one after the other, a space after each
Spaced(texts) == IF texts = <<>> THEN <<>> ELSE Head(texts) \o <<" ">> \o Spaced(Tail(texts))

\* every text of up to MaxTokens tokens, well-formed or not, and longer texts with
\* parse errors
StatementTexts ==
  {Spaced(texts) : texts \in UNION {[1..n -> TokenTexts] : n \in 0..MaxTokens}}
    \cup {SrcRecoverTop, SrcRecoverBlock, SrcRecoverPastBrace, SrcRecoverKeywords,
          SrcRecoverFunction, SrcRecoverAtEnd, SrcRecoverTarget, SrcScanError}

\* var a = "outer"; { fun show() { R } show(); var a = "block"; show(); print a; } print a;
\* at top level or nested in a block, where R reads a, or assigns a and reads it
StaticProgram(nested, assigns) ==
  (IF nested THEN SrcStaticNested ELSE SrcStaticTop)
    \o (IF assigns THEN SrcStaticAssign ELSE SrcStaticRead)
    \o SrcStaticCalls \o (IF nested THEN SrcStaticNestedEnd ELSE <<>>)

StaticPrograms == {StaticProgram(nested, assigns) : nested \in BOOLEAN, assigns \in BOOLEAN}

EnvironmentPrograms ==
  {SrcAgreement, SrcOwnInitAssign, SrcStatic, SrcDistances, SrcRestore, SrcDefine,
   SrcUndefinedRead, SrcUndefinedAssign, SrcUndefinedLocalRead, SrcUndefinedLocalAssign}
    \cup StaticPrograms

\* depth of the scope stacks handed to resolveLocal
MaxScopes == 3

\* the names of the scopes
ScopeNames == {<<"a">>, <<"b">>}

\* a scope: some of the names, each declared (FALSE) or defined (TRUE)
ScopeMaps == UNION {[names -> BOOLEAN] : names \in SUBSET ScopeNames}

ScopeStacks == UNION {[1..n -> ScopeMaps] : n \in 0..MaxScopes}

Programs ==
  {SrcPrintOne, SrcScanError, SrcParseError, SrcRuntimeError, SrcRuntimeInCall, SrcUndefined,
   SrcStatements, SrcCounterReadme, SrcLogical, SrcLogicalError, SrcOwnInitShadow,
   SrcOwnInitFun, SrcOwnInitTwice, SrcOwnInitTop, SrcOwnInitTopUndefined, SrcRedeclared,
   SrcShadowed, SrcTopReturn, SrcTopReturnNested, SrcReturns, SrcCalls, SrcBinary, SrcFor}
    \cup CounterPrograms \cup CallPrograms \cup BinaryPrograms \cup EqualityPrograms
    \cup ForPrograms \cup EnvironmentPrograms

VARIABLES
  command,          \* args[0]
  source,           \* fileContent
  pc,               \* where main execution stands
  exitCode,         \* the code passed to process.exit, 0 when the script runs to its end
  out,              \* the lines written by console.log
  errs,             \* the lines written by console.error
  scanner,          \* the Scanner object
  parser,           \* the Parser object, Null before it is constructed
  parsedExpression, \* const expression (parse)
  statements,       \* const statements (run)
  resolver,         \* the Resolver object, Null before it is constructed
  resolving,        \* resolveStatements at top level: the statements still to visit
  hadRuntimeError,  \* Interpreter.hadRuntimeError
  locals,           \* Interpreter.locals, the side table
  envs,             \* the heap of Environment objects
  funs,             \* the heap of LoxFunction objects
  environment,      \* Interpreter.environment
  ctl,              \* what the evaluator is doing: exec, eval, value, done, throw or idle
  kont              \* the pending evaluator calls, innermost last

vars == <<command, source, pc, exitCode, out, errs, scanner, parser, parsedExpression,
          statements, resolver, resolving, hadRuntimeError, locals, envs, funs, environment,
          ctl, kont>>

mainVars == <<scanner, parser, statements, resolver, resolving>>

\* Interpreter.globals: the first Environment object made
globals == 1

Exec(stmt) == [m |-> "exec", stmt |-> stmt]

Eval(expr) == [m |-> "eval", expr |-> expr]

Value(value) == [m |-> "value", value |-> value]

Done == [m |-> "done"]

Throw(ex) == [m |-> "throw", ex |-> ex]

Idle == [m |-> "idle"]

Top == kont[Len(kont)]

Pop == SubSeq(kont, 1, Len(kont) - 1)

Push(frame) == Append(kont, frame)

Init ==
  /\ command \in Commands
  /\ source \in Programs
  /\ pc = "start"
  /\ exitCode = 0
  /\ out = <<>>
  /\ errs = <<>>
  /\ scanner = NewScanner(source)
  /\ parser = Null
  /\ parsedExpression = Null
  /\ statements = <<>>
  /\ resolver = Null
  /\ resolving = <<>>
  /\ hadRuntimeError = FALSE
  /\ locals = EmptyMap
  /\ envs = <<>>
  /\ funs = <<>>
  /\ environment = NoEnv
  /\ ctl = Idle
  /\ kont = <<>>

\* the tokenize command on a text
ScanInit ==
  /\ command = "tokenize"
  /\ source \in ScanTexts
  /\ pc = "start"
  /\ exitCode = 0
  /\ out = <<>>
  /\ errs = <<>>
  /\ scanner = NewScanner(source)
  /\ parser = Null
  /\ parsedExpression = Null
  /\ statements = <<>>
  /\ resolver = Null
  /\ resolving = <<>>
  /\ hadRuntimeError = FALSE
  /\ locals = EmptyMap
  /\ envs = <<>>
  /\ funs = <<>>
  /\ environment = NoEnv
  /\ ctl = Idle
  /\ kont = <<>>

\* the parse command on an expression
ParseInit ==
  /\ command = "parse"
  /\ source \in Expressions
  /\ pc = "start"
  /\ exitCode = 0
  /\ out = <<>>
  /\ errs = <<>>
  /\ scanner = NewScanner(source)
  /\ parser = Null
  /\ parsedExpression = Null
  /\ statements = <<>>
  /\ resolver = Null
  /\ resolving = <<>>
  /\ hadRuntimeError = FALSE
  /\ locals = EmptyMap
  /\ envs = <<>>
  /\ funs = <<>>
  /\ environment = NoEnv
  /\ ctl = Idle
  /\ kont = <<>>

\* the run command on a text of statements
StatementsInit ==
  /\ command = "run"
  /\ source \in StatementTexts
  /\ pc = "start"
  /\ exitCode = 0
  /\ out = <<>>
  /\ errs = <<>>
  /\ scanner = NewScanner(source)
  /\ parser = Null
  /\ parsedExpression = Null
  /\ statements = <<>>
  /\ resolver = Null
  /\ resolving = <<>>
  /\ hadRuntimeError = FALSE
  /\ locals = EmptyMap
  /\ envs = <<>>
  /\ funs = <<>>
  /\ environment = NoEnv
  /\ ctl = Idle
  /\ kont = <<>>

evalVars == <<hadRuntimeError, locals, envs, funs, environment, ctl, kont>>

\* process.exit(code)
Exit(code) == pc' = "exit" /\ exitCode' = code

\* the diagnostics an object recorded since `before`
NewDiags(before, after) == SubSeq(after.diags, Len(before.diags) + 1, Len(after.diags))

\* const tokens = scanner.scanTokens(): a turn of the loop, or the end
ScanTokens ==
  /\ pc = "start"
  /\ IF ~scanIsAtEnd(scanner)
     THEN scanner' = scanNext(scanner) /\ UNCHANGED pc
     ELSE scanner' = scanEnd(scanner) /\ pc' = "scanned"
  /\ errs' = errs \o NewDiags(scanner, scanner')
  /\ UNCHANGED <<command, source, parsedExpression, exitCode, out, parser, statements, resolver,
                 resolving, evalVars>>

\* a faulty RunScanCheck that goes on to the parser whatever the scanner found
RunScanCheckUngated ==
  /\ pc = "scanned" /\ command = "run"
  /\ pc' = "parse" /\ parser' = NewParser(scanner.tokens)
  /\ UNCHANGED <<command, source, parsedExpression, exitCode, out, errs, scanner, statements,
                 resolver, resolving, evalVars>>

\* run: if (scanner.hasError()) process.exit(65); const parser = new Parser(tokens)
RunScanCheck ==
  /\ pc = "scanned" /\ command = "run"
  /\ IF scanner.hadError
     THEN Exit(65) /\ UNCHANGED parser
     ELSE pc' = "parse" /\ parser' = NewParser(scanner.tokens) /\ UNCHANGED exitCode
  /\ UNCHANGED <<command, source, parsedExpression, out, errs, scanner, statements, resolver,
                 resolving, evalVars>>

\* run: const statements = parser.parseStatements(): a turn of the loop, or the end
RunParse ==
  /\ pc = "parse"
  /\ IF ~isAtEnd(parser)
     THEN LET turn == parseNext(parser, statements)
          IN parser' = turn.p /\ statements' = turn.node /\ UNCHANGED pc
     ELSE pc' = "parsed" /\ UNCHANGED <<parser, statements>>
  /\ errs' = errs \o NewDiags(parser, parser')
  /\ UNCHANGED <<command, source, parsedExpression, exitCode, out, scanner, resolver, resolving,
                 evalVars>>

\* new Interpreter(): the global environment with clock
NewInterpreterEnvs ==
  envDefine(<<NewEnvironment(NoEnv)>>, globals, <<"c","l","o","c","k">>, Native)

\* run: if (parser.hasError()) process.exit(65); new Interpreter(); new Resolver(interpreter)
RunParseCheck ==
  /\ pc = "parsed"
  /\ IF parser.hadError
     THEN Exit(65) /\ UNCHANGED <<envs, environment, resolver, resolving>>
     ELSE /\ pc' = "resolve"
          /\ envs' = NewInterpreterEnvs
          /\ environment' = globals
          /\ resolver' = NewResolver
          /\ resolving' = statements
          /\ UNCHANGED exitCode
  /\ UNCHANGED <<command, source, parsedExpression, out, errs, scanner, parser, statements,
                 hadRuntimeError, locals, funs, ctl, kont>>

\* run: resolver.resolveStatements(statements): a turn of the loop, or the end
RunResolve ==
  /\ pc = "resolve"
  /\ IF resolving # <<>>
     THEN /\ resolver' = resolveStmt(resolver, Head(resolving))
          /\ resolving' = Tail(resolving)
          /\ UNCHANGED pc
     ELSE pc' = "resolved" /\ UNCHANGED <<resolver, resolving>>
  /\ locals' = resolver'.locals
  /\ errs' = errs \o NewDiags(resolver, resolver')
  /\ UNCHANGED <<command, source, parsedExpression, exitCode, out, scanner, parser, statements,
                 hadRuntimeError, envs, funs, environment, ctl, kont>>

\* run: if (resolver.hasError()) process.exit(65)
RunResolveCheck ==
  /\ pc = "resolved"
  /\ IF resolver.hadError THEN Exit(65) ELSE pc' = "interpret" /\ UNCHANGED exitCode
  /\ UNCHANGED <<command, source, parsedExpression, out, errs, mainVars, evalVars>>

\* run: if (interpreter.hasRuntimeError()) process.exit(70); else the script ends
RunRuntimeCheck ==
  /\ pc = "interpreted"
  /\ IF hadRuntimeError THEN Exit(70) ELSE Exit(0)
  /\ UNCHANGED <<command, source, parsedExpression, out, errs, mainVars, evalVars>>

\* tokenize: tokens.forEach(print the token); if (scanner.hasError()) process.exit(65)
Tokenize ==
  /\ pc = "scanned" /\ command = "tokenize"
  /\ out' = out \o [i \in 1..Len(scanner.tokens) |-> tokenLine(scanner.tokens[i])]
  /\ IF scanner.hadError THEN Exit(65) ELSE Exit(0)
  /\ UNCHANGED <<command, source, parsedExpression, errs, mainVars, evalVars>>

\* parse: if (scanner.hasError()) process.exit(65); const parser = new Parser(tokens)
ParseScanCheck ==
  /\ pc = "scanned" /\ command = "parse"
  /\ IF scanner.hadError
     THEN Exit(65) /\ UNCHANGED parser
     ELSE pc' = "parseExpression" /\ parser' = NewParser(scanner.tokens) /\ UNCHANGED exitCode
  /\ UNCHANGED <<command, source, parsedExpression, out, errs, scanner, statements, resolver,
                 resolving, evalVars>>

\* parse: const expression = parser.parse()
ParseExpression ==
  /\ pc = "parseExpression"
  /\ LET result == parse(parser)
     IN parser' = result.p /\ parsedExpression' = result.node
  /\ errs' = errs \o NewDiags(parser, parser')
  /\ pc' = "parsedExpression"
  /\ UNCHANGED <<command, source, exitCode, out, scanner, statements, resolver, resolving,
                 evalVars>>

\* parse: if (parser.hasError()) process.exit(65); if (expression) print it
ParseCheck ==
  /\ pc = "parsedExpression" /\ command = "parse"
  /\ IF parser.hadError
     THEN Exit(65) /\ UNCHANGED out
     ELSE /\ Exit(0)
          /\ out' = IF parsedExpression # Null THEN Append(out, astPrint(parsedExpression))
                    ELSE out
  /\ UNCHANGED <<command, source, parsedExpression, errs, mainVars, evalVars>>

\* ------------------------------------------------------------------------
\* Evaluator (class Interpreter, class LoxFunction).  ctl is the statement or
\* expression being entered (exec, eval), or what the innermost finished call
\* hands to its caller: a value, normal completion (done) or an exception
\* (throw).  kont holds one frame per call that waits, with the locals it
\* still needs.
\* ------------------------------------------------------------------------

Running == pc = "interpreting"

\* what no evaluator step changes
fixed == <<command, source, parsedExpression, exitCode, scanner, parser, statements, resolver,
           resolving, locals>>

noIO == <<out, errs>>

noHeap == <<envs, funs, environment>>

Entering(kind) == Running /\ ctl.m = "exec" /\ ctl.stmt.k = kind

Evaluating(kind) == Running /\ ctl.m = "eval" /\ ctl.expr.k = kind

\* the call in frame f gets control back with outcome m
Resuming(f, m) == Running /\ ctl.m = m /\ kont # <<>> /\ Top.f = f

\* interpretStatements(statements): the for loop inside try, and the catch
interpretStatements ==
  \/ /\ pc = "interpret"
     /\ kont' = <<[f |-> "interpretStatements", rest |-> statements]>>
     /\ ctl' = Done
     /\ pc' = "interpreting"
     /\ UNCHANGED <<fixed, noIO, noHeap, hadRuntimeError>>
  \/ /\ Resuming("interpretStatements", "done")
     /\ IF Top.rest # <<>>
        THEN /\ ctl' = Exec(Head(Top.rest))
             /\ kont' = [kont EXCEPT ![Len(kont)].rest = Tail(@)]
             /\ UNCHANGED pc
        ELSE /\ ctl' = Idle
             /\ kont' = Pop
             /\ pc' = "interpreted"
     /\ UNCHANGED <<fixed, noIO, noHeap, hadRuntimeError>>
  \/ /\ Resuming("interpretStatements", "throw")
     /\ IF ctl.ex.x = "RuntimeError"
        THEN /\ hadRuntimeError' = TRUE
             /\ errs' = errs \o << [fmt |-> "message"] @@ ctl.ex.message,
                                   [fmt |-> "line", line |-> ctl.ex.token.line] >>
        ELSE UNCHANGED <<hadRuntimeError, errs>>
     /\ ctl' = Idle
     /\ kont' = Pop
     /\ pc' = "interpreted"
     /\ UNCHANGED <<fixed, out, noHeap>>

visitExpressionStmt ==
  \/ /\ Entering("Expression")
     /\ kont' = Push([f |-> "visitExpressionStmt"])
     /\ ctl' = Eval(ctl.stmt.expression)
     /\ UNCHANGED <<fixed, pc, noIO, noHeap, hadRuntimeError>>
  \/ /\ Resuming("visitExpressionStmt", "value")
     /\ kont' = Pop
     /\ ctl' = Done
     /\ UNCHANGED <<fixed, pc, noIO, noHeap, hadRuntimeError>>

visitPrintStmt ==
  \/ /\ Entering("Print")
     /\ kont' = Push([f |-> "visitPrintStmt"])
     /\ ctl' = Eval(ctl.stmt.expression)
     /\ UNCHANGED <<fixed, pc, noIO, noHeap, hadRuntimeError>>
  \/ /\ Resuming("visitPrintStmt", "value")
     /\ LET text == stringify(funs, ctl.value)
        IN IF text.thrown
           THEN ctl' = Throw(text.ex) /\ UNCHANGED out
           ELSE ctl' = Done /\ out' = Append(out, text.value)
     /\ kont' = Pop
     /\ UNCHANGED <<fixed, pc, errs, noHeap, hadRuntimeError>>

\* a faulty visitVarStmt that writes to the nearest binding of the name, where there is
\* one, as an assignment by name does
visitVarStmtOverwriting ==
  \/ /\ Entering("Var")
     /\ IF ctl.stmt.initializer # Null
        THEN /\ kont' = Push([f |-> "visitVarStmt", stmt |-> ctl.stmt])
             /\ ctl' = Eval(ctl.stmt.initializer)
             /\ UNCHANGED envs
        ELSE /\ envs' = envDefine(envs, environment, ctl.stmt.name.lexeme, Nil)
             /\ ctl' = Done
             /\ UNCHANGED kont
     /\ UNCHANGED <<fixed, pc, noIO, funs, environment, hadRuntimeError>>
  \/ /\ Resuming("visitVarStmt", "value")
     /\ LET assigned == envAssign(envs, environment, Top.stmt.name, ctl.value)
        IN envs' = IF assigned.thrown
                   THEN envDefine(envs, environment, Top.stmt.name.lexeme, ctl.value)
                   ELSE assigned.value
     /\ kont' = Pop
     /\ ctl' = Done
     /\ UNCHANGED <<fixed, pc, noIO, funs, environment, hadRuntimeError>>

visitVarStmt ==
  \/ /\ Entering("Var")
     /\ IF ctl.stmt.initializer # Null
        THEN /\ kont' = Push([f |-> "visitVarStmt", stmt |-> ctl.stmt])
             /\ ctl' = Eval(ctl.stmt.initializer)
             /\ UNCHANGED envs
        ELSE /\ envs' = envDefine(envs, environment, ctl.stmt.name.lexeme, Nil)
             /\ ctl' = Done
             /\ UNCHANGED kont
     /\ UNCHANGED <<fixed, pc, noIO, funs, environment, hadRuntimeError>>
  \/ /\ Resuming("visitVarStmt", "value")
     /\ envs' = envDefine(envs, environment, Top.stmt.name.lexeme, ctl.value)
     /\ kont' = Pop
     /\ ctl' = Done
     /\ UNCHANGED <<fixed, pc, noIO, funs, environment, hadRuntimeError>>

\* visitBlockStmt: executeBlock(stmt.statements, new Environment(this.environment)),
\* up to the head of the loop of executeBlock
visitBlockStmt ==
  /\ Entering("Block")
  /\ envs' = Append(envs, NewEnvironment(environment))
  /\ kont' = Push([f |-> "executeBlock", rest |-> ctl.stmt.statements,
                   previous |-> environment])
  /\ environment' = Len(envs) + 1
  /\ ctl' = Done
  /\ UNCHANGED <<fixed, pc, noIO, funs, hadRuntimeError>>

\* a faulty executeBlock whose finally swallows the exception
executeBlockSwallowing ==
  \/ /\ Resuming("executeBlock", "done")
     /\ IF Top.rest # <<>>
        THEN /\ ctl' = Exec(Head(Top.rest))
             /\ kont' = [kont EXCEPT ![Len(kont)].rest = Tail(@)]
             /\ UNCHANGED environment
        ELSE /\ environment' = Top.previous
             /\ kont' = Pop
             /\ ctl' = Done
     /\ UNCHANGED <<fixed, pc, noIO, envs, funs, hadRuntimeError>>
  \/ /\ Resuming("executeBlock", "throw")
     /\ environment' = Top.previous
     /\ kont' = Pop
     /\ ctl' = Done
     /\ UNCHANGED <<fixed, pc, noIO, envs, funs, hadRuntimeError>>

\* a faulty executeBlock without finally: the environment is restored only at the end
\* of the loop
executeBlockLeaking ==
  \/ /\ Resuming("executeBlock", "done")
     /\ IF Top.rest # <<>>
        THEN /\ ctl' = Exec(Head(Top.rest))
             /\ kont' = [kont EXCEPT ![Len(kont)].rest = Tail(@)]
             /\ UNCHANGED environment
        ELSE /\ environment' = Top.previous
             /\ kont' = Pop
             /\ ctl' = Done
     /\ UNCHANGED <<fixed, pc, noIO, envs, funs, hadRuntimeError>>
  \/ /\ Resuming("executeBlock", "throw")
     /\ kont' = Pop
     /\ UNCHANGED <<fixed, pc, noIO, envs, funs, hadRuntimeError, ctl, environment>>

\* executeBlock: the for loop inside try, and the finally
executeBlock ==
  \/ /\ Resuming("executeBlock", "done")
     /\ IF Top.rest # <<>>
        THEN /\ ctl' = Exec(Head(Top.rest))
             /\ kont' = [kont EXCEPT ![Len(kont)].rest = Tail(@)]
             /\ UNCHANGED environment
        ELSE /\ environment' = Top.previous
             /\ kont' = Pop
             /\ ctl' = Done
     /\ UNCHANGED <<fixed, pc, noIO, envs, funs, hadRuntimeError>>
  \/ /\ Resuming("executeBlock", "throw")
     /\ environment' = Top.previous
     /\ kont' = Pop
     /\ UNCHANGED <<fixed, pc, noIO, envs, funs, hadRuntimeError, ctl>>

visitIfStmt ==
  \/ /\ Entering("If")
     /\ kont' = Push([f |-> "visitIfStmt", stmt |-> ctl.stmt])
     /\ ctl' = Eval(ctl.stmt.condition)
     /\ UNCHANGED <<fixed, pc, noIO, noHeap, hadRuntimeError>>
  \/ /\ Resuming("visitIfStmt", "value")
     /\ ctl' = IF isTruthy(ctl.value) THEN Exec(Top.stmt.thenBranch)
               ELSE IF Top.stmt.elseBranch # Null THEN Exec(Top.stmt.elseBranch)
               ELSE Done
     /\ kont' = Pop
     /\ UNCHANGED <<fixed, pc, noIO, noHeap, hadRuntimeError>>

visitWhileStmt ==
  \/ /\ Entering("While")
     /\ kont' = Push([f |-> "visitWhileStmt", stmt |-> ctl.stmt])
     /\ ctl' = Eval(ctl.stmt.condition)
     /\ UNCHANGED <<fixed, pc, noIO, noHeap, hadRuntimeError>>
  \/ /\ Resuming("visitWhileStmt", "value")
     /\ IF isTruthy(ctl.value)
        THEN ctl' = Exec(Top.stmt.body) /\ UNCHANGED kont
        ELSE ctl' = Done /\ kont' = Pop
     /\ UNCHANGED <<fixed, pc, noIO, noHeap, hadRuntimeError>>
  \/ /\ Resuming("visitWhileStmt", "done")
     /\ ctl' = Eval(Top.stmt.condition)
     /\ UNCHANGED <<fixed, pc, noIO, noHeap, hadRuntimeError, kont>>

\* a faulty LoxFunction that closes over the globals, not the environment of its declaration
LoxFunctionOverGlobals(decl, closure) == [declaration |-> decl, closure |-> globals]

\* new LoxFunction(declaration, closure)
LoxFunction(decl, closure) == [declaration |-> decl, closure |-> closure]

visitFunctionStmt ==
  /\ Entering("Function")
  /\ funs' = Append(funs, LoxFunction(ctl.stmt, environment))
  /\ envs' = envDefine(envs, environment, ctl.stmt.name.lexeme, Fn(Len(funs) + 1))
  /\ ctl' = Done
  /\ UNCHANGED <<fixed, pc, noIO, environment, hadRuntimeError, kont>>

visitReturnStmt ==
  \/ /\ Entering("Return")
     /\ IF ctl.stmt.value # Null
        THEN kont' = Push([f |-> "visitReturnStmt"]) /\ ctl' = Eval(ctl.stmt.value)
        ELSE ctl' = Throw(ReturnException(Nil)) /\ UNCHANGED kont
     /\ UNCHANGED <<fixed, pc, noIO, noHeap, hadRuntimeError>>
  \/ /\ Resuming("visitReturnStmt", "value")
     /\ ctl' = Throw(ReturnException(ctl.value))
     /\ kont' = Pop
     /\ UNCHANGED <<fixed, pc, noIO, noHeap, hadRuntimeError>>

visitLiteralExpr ==
  /\ Evaluating("Literal")
  /\ ctl' = Value(ctl.expr.value)
  /\ UNCHANGED <<fixed, pc, noIO, noHeap, hadRuntimeError, kont>>

visitGroupingExpr ==
  /\ Evaluating("Grouping")
  /\ ctl' = Eval(ctl.expr.expression)
  /\ UNCHANGED <<fixed, pc, noIO, noHeap, hadRuntimeError, kont>>

\* a faulty lookUpVariable that walks the chain of the current environment
lookUpVariableDynamic(name, expr) == envGet(envs, environment, name)

\* lookUpVariable(name, expr)
lookUpVariable(name, expr) ==
  IF MapHas(locals, expr.id)
  THEN Returns(getAt(envs, environment, locals[expr.id], name.lexeme))
  ELSE envGet(envs, globals, name)

visitVariableExpr ==
  /\ Evaluating("Variable")
  /\ LET found == lookUpVariable(ctl.expr.name, ctl.expr)
     IN ctl' = IF found.thrown THEN Throw(found.ex) ELSE Value(found.value)
  /\ UNCHANGED <<fixed, pc, noIO, noHeap, hadRuntimeError, kont>>

visitAssignExpr ==
  \/ /\ Evaluating("Assign")
     /\ kont' = Push([f |-> "visitAssignExpr", expr |-> ctl.expr])
     /\ ctl' = Eval(ctl.expr.value)
     /\ UNCHANGED <<fixed, pc, noIO, noHeap, hadRuntimeError>>
  \/ /\ Resuming("visitAssignExpr", "value")
     /\ LET expr == Top.expr
            assigned == IF MapHas(locals, expr.id)
                        THEN Returns(assignAt(envs, environment, locals[expr.id], expr.name,
                                              ctl.value))
                        ELSE envAssign(envs, globals, expr.name, ctl.value)
        IN IF assigned.thrown
           THEN ctl' = Throw(assigned.ex) /\ UNCHANGED envs
           ELSE ctl' = Value(ctl.value) /\ envs' = assigned.value
     /\ kont' = Pop
     /\ UNCHANGED <<fixed, pc, noIO, funs, environment, hadRuntimeError>>

\* what visitLogicalExpr does with the value of the left operand: return it, or go on
\* to the right operand
logicalReturnsLeft(operator, left) ==
  IF operator.type = "OR" THEN isTruthy(left)
  ELSE IF operator.type = "AND" THEN ~isTruthy(left)
  ELSE FALSE

visitLogicalExpr ==
  \/ /\ Evaluating("Logical")
     /\ kont' = Push([f |-> "visitLogicalExpr", expr |-> ctl.expr])
     /\ ctl' = Eval(ctl.expr.left)
     /\ UNCHANGED <<fixed, pc, noIO, noHeap, hadRuntimeError>>
  \/ /\ Resuming("visitLogicalExpr", "value")
     /\ ctl' = IF logicalReturnsLeft(Top.expr.operator, ctl.value) THEN Value(ctl.value)
               ELSE Eval(Top.expr.right)
     /\ kont' = Pop
     /\ UNCHANGED <<fixed, pc, noIO, noHeap, hadRuntimeError>>

visitUnaryExpr ==
  \/ /\ Evaluating("Unary")
     /\ kont' = Push([f |-> "visitUnaryExpr", expr |-> ctl.expr])
     /\ ctl' = Eval(ctl.expr.right)
     /\ UNCHANGED <<fixed, pc, noIO, noHeap, hadRuntimeError>>
  \/ /\ Resuming("visitUnaryExpr", "value")
     /\ LET result == unaryOp(Top.expr.operator, ctl.value)
        IN ctl' = IF result.thrown THEN Throw(result.ex) ELSE Value(result.value)
     /\ kont' = Pop
     /\ UNCHANGED <<fixed, pc, noIO, noHeap, hadRuntimeError>>

\* a faulty visitBinaryExpr that checks the left operand before it evaluates the right one
visitBinaryExprEager ==
  \/ /\ Evaluating("Binary")
     /\ kont' = Push([f |-> "visitBinaryExpr", expr |-> ctl.expr, at |-> "left", left |-> Nil])
     /\ ctl' = Eval(ctl.expr.left)
     /\ UNCHANGED <<fixed, pc, noIO, noHeap, hadRuntimeError>>
  \/ /\ Resuming("visitBinaryExpr", "value")
     /\ Top.at = "left"
     /\ IF Top.expr.operator.type \in {"MINUS", "SLASH", "STAR"} /\ typeof(ctl.value) # "number"
        THEN /\ ctl' = Throw(RuntimeError(Top.expr.operator,
                                          [msg |-> "Operands must be numbers."]))
             /\ kont' = Pop
        ELSE /\ kont' = [kont EXCEPT ![Len(kont)].at = "right", ![Len(kont)].left = ctl.value]
             /\ ctl' = Eval(Top.expr.right)
     /\ UNCHANGED <<fixed, pc, noIO, noHeap, hadRuntimeError>>
  \/ /\ Resuming("visitBinaryExpr", "value")
     /\ Top.at = "right"
     /\ LET result == binaryOp(Top.expr.operator, Top.left, ctl.value)
        IN ctl' = IF result.thrown THEN Throw(result.ex) ELSE Value(result.value)
     /\ kont' = Pop
     /\ UNCHANGED <<fixed, pc, noIO, noHeap, hadRuntimeError>>

visitBinaryExpr ==
  \/ /\ Evaluating("Binary")
     /\ kont' = Push([f |-> "visitBinaryExpr", expr |-> ctl.expr, at |-> "left", left |-> Nil])
     /\ ctl' = Eval(ctl.expr.left)
     /\ UNCHANGED <<fixed, pc, noIO, noHeap, hadRuntimeError>>
  \/ /\ Resuming("visitBinaryExpr", "value")
     /\ Top.at = "left"
     /\ kont' = [kont EXCEPT ![Len(kont)].at = "right", ![Len(kont)].left = ctl.value]
     /\ ctl' = Eval(Top.expr.right)
     /\ UNCHANGED <<fixed, pc, noIO, noHeap, hadRuntimeError>>
  \/ /\ Resuming("visitBinaryExpr", "value")
     /\ Top.at = "right"
     /\ LET result == binaryOp(Top.expr.operator, Top.left, ctl.value)
        IN ctl' = IF result.thrown THEN Throw(result.ex) ELSE Value(result.value)
     /\ kont' = Pop
     /\ UNCHANGED <<fixed, pc, noIO, noHeap, hadRuntimeError>>

\* largest value the clock returns in this model
MaxClock == 1

RECURSIVE defineParams(_, _, _, _)
\* the for loop of LoxFunction.call over declaration.params
defineParams(values, params, args, i) ==
  IF i <= Len(params)
  THEN defineParams(MapSet(values, params[i].lexeme, args[i]), params, args, i + 1)
  ELSE values

\* a faulty arity that takes every callable for one without parameters
arityNone(callee) == 0

arity(callee) == IF callee.t = "native" THEN 0 ELSE Len(funs[callee.id].declaration.params)

\* visitCallExpr once the callee and the arguments are evaluated: the two checks, then
\* func.call(this, args), which for a LoxFunction runs up to the head of the loop of
\* executeBlock and for the clock returns the time
callChecked(expr, callee, args) ==
  IF ~isCallable(callee)
  THEN /\ ctl' = Throw(RuntimeError(expr.paren, [msg |-> "Can only call functions and classes."]))
       /\ kont' = Pop
       /\ UNCHANGED noHeap
  ELSE IF Len(args) # arity(callee)
  THEN /\ ctl' = Throw(RuntimeError(expr.paren,
                                    [msg |-> "Expected N arguments but got M.",
                                     N |-> arity(callee), M |-> Len(args)]))
       /\ kont' = Pop
       /\ UNCHANGED noHeap
  ELSE IF callee.t = "native"
  THEN /\ \E now \in 0..MaxClock : ctl' = Value(Num(now))
       /\ kont' = Pop
       /\ UNCHANGED noHeap
  ELSE LET func == funs[callee.id]
       IN /\ envs' = Append(envs, [values |-> defineParams(EmptyMap, func.declaration.params,
                                                           args, 1),
                                   enclosing |-> func.closure])
          /\ kont' = Pop \o << [f |-> "call"],
                               [f |-> "executeBlock", rest |-> func.declaration.body,
                                previous |-> environment] >>
          /\ environment' = Len(envs) + 1
          /\ ctl' = Done
          /\ UNCHANGED funs

visitCallExpr ==
  \/ /\ Evaluating("Call")
     /\ kont' = Push([f |-> "visitCallExpr", expr |-> ctl.expr, at |-> "callee",
                      callee |-> Nil, args |-> <<>>])
     /\ ctl' = Eval(ctl.expr.callee)
     /\ UNCHANGED <<fixed, pc, noIO, noHeap, hadRuntimeError>>
  \/ /\ Resuming("visitCallExpr", "value")
     /\ LET expr == Top.expr
            callee == IF Top.at = "callee" THEN ctl.value ELSE Top.callee
            args == IF Top.at = "callee" THEN <<>> ELSE Append(Top.args, ctl.value)
        IN IF Len(args) < Len(expr.args)
           THEN /\ kont' = [kont EXCEPT ![Len(kont)].at = "args",
                                        ![Len(kont)].callee = callee,
                                        ![Len(kont)].args = args]
                /\ ctl' = Eval(expr.args[Len(args) + 1])
                /\ UNCHANGED noHeap
           ELSE callChecked(expr, callee, args)
     /\ UNCHANGED <<fixed, pc, noIO, hadRuntimeError>>

\* LoxFunction.call after executeBlock: return null, or the catch of the try
call ==
  \/ /\ Resuming("call", "done")
     /\ ctl' = Value(Nil)
     /\ kont' = Pop
     /\ UNCHANGED <<fixed, pc, noIO, noHeap, hadRuntimeError>>
  \/ /\ Resuming("call", "throw")
     /\ ctl' = IF ctl.ex.x = "ReturnException" THEN Value(ctl.ex.value) ELSE ctl
     /\ kont' = Pop
     /\ UNCHANGED <<fixed, pc, noIO, noHeap, hadRuntimeError>>

\* the calls that have neither catch nor finally
Transparent ==
  {"visitExpressionStmt", "visitPrintStmt", "visitVarStmt", "visitIfStmt", "visitWhileStmt",
   "visitReturnStmt", "visitAssignExpr", "visitLogicalExpr", "visitUnaryExpr",
   "visitBinaryExpr", "visitCallExpr"}

\* an exception leaves a call that does not catch it
Propagate ==
  /\ Running /\ ctl.m = "throw" /\ kont # <<>> /\ Top.f \in Transparent
  /\ kont' = Pop
  /\ UNCHANGED <<fixed, pc, noIO, noHeap, hadRuntimeError, ctl>>

Next ==
  \/ ScanTokens
  \/ RunScanCheck
  \/ RunParse
  \/ RunParseCheck
  \/ RunResolve
  \/ RunResolveCheck
  \/ RunRuntimeCheck
  \/ interpretStatements
  \/ visitExpressionStmt
  \/ visitPrintStmt
  \/ visitVarStmt
  \/ visitBlockStmt
  \/ executeBlock
  \/ visitIfStmt
  \/ visitWhileStmt
  \/ visitFunctionStmt
  \/ visitReturnStmt
  \/ visitLiteralExpr
  \/ visitGroupingExpr
  \/ visitVariableExpr
  \/ visitAssignExpr
  \/ visitLogicalExpr
  \/ visitUnaryExpr
  \/ visitBinaryExpr
  \/ visitCallExpr
  \/ call
  \/ Propagate

Spec == Init /\ [][Next]_vars

ScanNext ==
  \/ ScanTokens
  \/ Tokenize

ScanSpec == ScanInit /\ [][ScanNext]_vars

ParseNext ==
  \/ ScanTokens
  \/ ParseScanCheck
  \/ ParseExpression
  \/ ParseCheck

ParseSpec == ParseInit /\ [][ParseNext]_vars

\* the run command up to the check of the parser
StatementsNext ==
  \/ ScanTokens
  \/ RunScanCheck
  \/ RunParse
  \/ RunParseCheck

StatementsSpec == StatementsInit /\ [][StatementsNext]_vars

\* ------------------------------------------------------------------------
\* Properties
\* ------------------------------------------------------------------------

\* a RuntimeError is in flight
RuntimeRaised == ctl.m = "throw" /\ ctl.ex.x = "RuntimeError"

\* a ReturnException is in flight
ReturnRaised == ctl.m = "throw" /\ ctl.ex.x = "ReturnException"

\* the scanner, the parser or the resolver recorded an error
CompileErrorRecorded ==
  \/ scanner.hadError
  \/ parser # Null /\ parser.hadError
  \/ resolver # Null /\ resolver.hadError

\* the diagnostics written by the scanner, the parser and the resolver
CompileDiags == SelectSeq(errs, LAMBDA d : d.fmt \in {"scan", "parse", "resolve"})

\* the lines written for runtime errors
RuntimeDiags == SelectSeq(errs, LAMBDA d : d.fmt \in {"message", "line"})

\* the evaluator was never started
NeverEvaluated ==
  /\ pc \notin {"interpret", "interpreting", "interpreted"}
  /\ out = <<>> /\ funs = <<>> /\ kont = <<>> /\ ctl = Idle /\ ~hadRuntimeError

\* C1: in run mode the exit code is 65 exactly when the scanner, the parser or the
\* resolver recorded an error, and then the evaluator is never started and nothing is
\* printed; otherwise it is 70 exactly when a runtime error was raised (a raised
\* RuntimeError always ends in the flag, and the flag is only set by one); otherwise 0.
\* The parser is not made after a scan error, the resolver not after a parse error.
C1_StagesGateExitCode ==
  /\ [](command = "run" =>
          /\ scanner.hadError => parser = Null
          /\ (parser # Null /\ parser.hadError) => resolver = Null
          /\ CompileErrorRecorded = (CompileDiags # <<>>)
          /\ CompileErrorRecorded => NeverEvaluated
          /\ pc = "exit" => exitCode = IF CompileErrorRecorded THEN 65
                                       ELSE IF hadRuntimeError THEN 70 ELSE 0)
  /\ [][command = "run" =>
          /\ RuntimeRaised => RuntimeRaised' \/ hadRuntimeError'
          /\ (hadRuntimeError' /\ ~hadRuntimeError) => RuntimeRaised]_vars

\* C1 witness: a parse error ended the run with 65 before the resolver was made
C1_Witness ==
  /\ pc = "exit" /\ exitCode = 65 /\ command = "run"
  /\ ~scanner.hadError /\ parser # Null /\ parser.hadError /\ resolver = Null

\* C2: in run mode, from the moment a RuntimeError is raised nothing more is evaluated:
\* the output and the heap stay as they are, the exception only unwinds until
\* interpretStatements writes its message and then the line of its token, once; the flag
\* then stays set, nothing runs afterwards, and the exit code is 70.
C2_RuntimeErrorStops ==
  /\ [][command = "run" /\ RuntimeRaised =>
          /\ out' = out /\ envs' = envs /\ funs' = funs
          /\ \/ ctl' = ctl /\ errs' = errs /\ ~hadRuntimeError'
             \/ /\ ctl' = Idle /\ hadRuntimeError' /\ pc' = "interpreted"
                /\ errs' = errs \o << [fmt |-> "message"] @@ ctl.ex.message,
                                      [fmt |-> "line", line |-> ctl.ex.token.line] >>]_vars
  /\ [][command = "run" /\ hadRuntimeError =>
          /\ hadRuntimeError' /\ out' = out /\ errs' = errs /\ envs' = envs
          /\ ctl' = Idle /\ kont' = <<>> /\ pc' = "exit" /\ exitCode' = 70]_vars
  /\ [](command = "run" =>
          /\ Len(RuntimeDiags) = IF hadRuntimeError THEN 2 ELSE 0
          /\ hadRuntimeError => pc \in {"interpreted", "exit"} /\ ctl = Idle
          /\ (pc = "exit" /\ hadRuntimeError) => exitCode = 70)
  /\ [](pc = "exit" /\ source = SrcRuntimeError =>
          /\ out = <<<<"1">>>>
          /\ errs = << [fmt |-> "message", msg |-> "Operand must be a number."],
                       [fmt |-> "line", line |-> 2] >>)

\* C2 witness: the error of the second statement ended the run, the output of the first
\* statement is there and the third statement printed nothing
C2_Witness ==
  /\ pc = "exit" /\ exitCode = 70 /\ hadRuntimeError /\ source = SrcRuntimeError
  /\ out = <<<<"1">>>> /\ Len(statements) = 3

\* how many of the first i calls went to the counter that call i uses
CallsSoFar(calls, i) == Cardinality({j \in 1..i : calls[j] = calls[i]})

\* what a counter program prints: each call prints how often its own counter was called
CounterOutput(calls) == [i \in 1..Len(calls) |-> NatToString(CallsSoFar(calls, i))]

\* the function objects made from the declaration of `name`
FunctionsNamed(name) == {f \in 1..Len(funs) : funs[f].declaration.name.lexeme = name}

\* C3: an inner function reads and writes the locals of the invocation that declared it
\* after that invocation returned: the counter scenario prints 1, 2, 3 and the binding i
\* of the returned invocation holds 3; with two counters every call prints the number of
\* calls made so far to its own counter, whatever the order of the calls.
C3_Closures ==
  pc = "exit" =>
    /\ source = SrcCounterReadme =>
         /\ out = << <<"1">>, <<"2">>, <<"3">> >> /\ errs = <<>> /\ exitCode = 0
         /\ environment = globals
         /\ \A f \in FunctionsNamed(<<"c","o","u","n","t">>) :
              /\ funs[f].closure # globals
              /\ envs[funs[f].closure].values[<<"i">>] = Num(3)
    /\ \A calls \in CallSeqs :
         source = CounterProgram(calls) =>
           out = CounterOutput(calls) /\ errs = <<>> /\ exitCode = 0

\* C3 witness: two counters were used in turn and each started from 1
C3_Witness ==
  /\ pc = "exit"
  /\ \E calls \in CallSeqs :
       /\ source = CounterProgram(calls) /\ calls[1] # calls[2]
       /\ out[1] = <<"1">> /\ out[2] = <<"1">> /\ Cardinality(FunctionsNamed(<<"c","o","u","n",
               "t">>)) = 2

\* nil and false, the falsey values
Falsey(value) == value = Nil \/ value = Bool(FALSE)

\* the left operand of a logical expression has just been evaluated
LeftEvaluated == Resuming("visitLogicalExpr", "value")

\* the value of the left operand decides the logical expression in the top frame
ShortCircuits ==
  IF Top.expr.operator.type = "OR" THEN ~Falsey(ctl.value) ELSE Falsey(ctl.value)

\* C4: once the left operand of `or` is truthy, or that of `and` is nil or false, the
\* expression is finished with that very value and the right operand is never entered,
\* so nothing is printed, assigned or raised by it; otherwise the right operand is
\* evaluated and its value is the result.  No value is coerced to a boolean.
C4_ShortCircuit ==
  /\ [][LeftEvaluated =>
          /\ kont' = Pop
          /\ IF ShortCircuits
             THEN ctl' = Value(ctl.value) /\ out' = out /\ envs' = envs /\ errs' = errs
             ELSE ctl' = Eval(Top.expr.right)]_vars
  /\ [](pc = "exit" /\ source = SrcLogical =>
          /\ out = << <<"f","a","l","s","e">>, <<"t","r","u","e">>, <<"1">>, <<"n","i","l">>,
                      <<"0">>, <<"3">>, <<"2">>, <<"s">>, <<"c","a","l","l","e","d">>,
                      <<"t","r","u","e">>, <<"3">>, <<"3">> >>
          /\ exitCode = 0)
  /\ [](pc = "exit" /\ source = SrcLogicalError =>
          /\ out = << <<"t","r","u","e">>, <<"f","a","l","s","e">> >>
          /\ exitCode = 70 /\ errs[Len(errs)].line = 3)

\* C4 witness: `0 or f()` was decided by its left operand 0, a value that is not a boolean,
\* while the right operand is a call
C4_Witness ==
  /\ LeftEvaluated /\ ShortCircuits
  /\ ctl.value = Num(0) /\ Top.expr.operator.type = "OR" /\ Top.expr.right.k = "Call"

\* the resolver has visited the whole program
Resolved == resolver # Null /\ pc \in {"resolved", "interpret", "interpreting", "interpreted", "exit"}

\* the diagnostic the resolver writes for `token`
ResolverDiag(token, message) ==
  [fmt |-> "resolve", line |-> token.line, where |-> <<"'">> \o token.lexeme \o <<"'">>,
   msg |-> message]

\* the diagnostics, in order, that the resolver wrote with `message`
ResolverDiags(message) == SelectSeq(resolver.diags, LAMBDA d : d.msg = message)

RECURSIVE ReadsOf(_, _), ReadsOfAll(_, _)
\* the name tokens of the reads of variable `name` in an expression, in source order
ReadsOf(expr, name) ==
  CASE expr.k = "Variable" -> IF expr.name.lexeme = name THEN <<expr.name>> ELSE <<>>
    [] expr.k = "Assign" -> ReadsOf(expr.value, name)
    [] expr.k \in {"Binary", "Logical"} -> ReadsOf(expr.left, name) \o ReadsOf(expr.right, name)
    [] expr.k = "Call" -> ReadsOf(expr.callee, name) \o ReadsOfAll(expr.args, name)
    [] expr.k = "Grouping" -> ReadsOf(expr.expression, name)
    [] expr.k = "Unary" -> ReadsOf(expr.right, name)
    [] expr.k = "Literal" -> <<>>

ReadsOfAll(exprs, name) ==
  IF exprs = <<>> THEN <<>> ELSE ReadsOf(Head(exprs), name) \o ReadsOfAll(Tail(exprs), name)

RECURSIVE SelfReads(_, _), SelfReadsAll(_, _)
\* the reads of x in the initializer of a `var x = E` of this statement that lies inside
\* a block or a function body; local tells whether the statement itself lies inside one
SelfReads(stmt, local) ==
  CASE stmt.k = "Var" ->
         IF local /\ stmt.initializer # Null THEN ReadsOf(stmt.initializer, stmt.name.lexeme)
         ELSE <<>>
    [] stmt.k = "Block" -> SelfReadsAll(stmt.statements, TRUE)
    [] stmt.k = "Function" -> SelfReadsAll(stmt.body, TRUE)
    [] stmt.k = "If" ->
         SelfReads(stmt.thenBranch, local)
           \o (IF stmt.elseBranch # Null THEN SelfReads(stmt.elseBranch, local) ELSE <<>>)
    [] stmt.k = "While" -> SelfReads(stmt.body, local)
    [] OTHER -> <<>>

SelfReadsAll(stmts, local) ==
  IF stmts = <<>> THEN <<>>
  ELSE SelfReads(Head(stmts), local) \o SelfReadsAll(Tail(stmts), local)

OwnInitializer == "Can't read local variable in its own initializer."

\* C5: in run mode the resolver reports "Can't read local variable in its own initializer."
\* at exactly the reads of x in the initializer of a `var x = E` that lies inside a block
\* or a function body, also when an enclosing scope declares x, and never for a
\* declaration at top level; with such a report the exit code is 65 and nothing is run.
C5_OwnInitializer ==
  /\ Resolved =>
       LET reads == SelfReadsAll(statements, FALSE)
       IN /\ ResolverDiags(OwnInitializer)
               = [i \in 1..Len(reads) |-> ResolverDiag(reads[i], OwnInitializer)]
          /\ reads # <<>> => NeverEvaluated /\ (pc = "exit" => exitCode = 65)
  /\ (pc = "exit" /\ source = SrcOwnInitShadow) =>
       errs = << [fmt |-> "resolve", line |-> 1, where |-> <<"'", "a", "'">>,
                  msg |-> OwnInitializer] >>
  /\ (pc = "exit" /\ source = SrcOwnInitTop) =>
       errs = <<>> /\ exitCode = 0 /\ out = << <<"2">>, <<"1">>, <<"2">> >>

\* C5 witness: the inner `var a = a` of the shadowing scenario was reported and the run
\* ended with 65
C5_Witness ==
  /\ pc = "exit" /\ exitCode = 65 /\ source = SrcOwnInitShadow
  /\ Len(SelfReadsAll(statements, FALSE)) = 1 /\ Len(errs) = 1

RECURSIVE Redeclared(_, _, _), RedeclaredParams(_, _)
\* the name tokens, in source order, that declare a name again in the local scope they
\* are in.  stmts are the statements still to come in the current scope, seen the names
\* this scope has so far, local whether it is a block or a function body
Redeclared(stmts, seen, local) ==
  IF stmts = <<>> THEN <<>>
  ELSE LET stmt == Head(stmts)
           declares == stmt.k \in {"Var", "Function"}
           here == IF declares /\ local /\ stmt.name.lexeme \in seen THEN <<stmt.name>>
                   ELSE <<>>
           names == IF declares THEN seen \cup {stmt.name.lexeme} ELSE seen
           inside ==
             CASE stmt.k = "Block" -> Redeclared(stmt.statements, {}, TRUE)
               [] stmt.k = "Function" ->
                    RedeclaredParams(stmt.params, {})
                      \o Redeclared(stmt.body, {param.lexeme : param \in
                                                  {stmt.params[i] : i \in DOMAIN stmt.params}},
                                    TRUE)
               [] stmt.k = "If" ->
                    Redeclared(<<stmt.thenBranch>>, names, local)
                      \o (IF stmt.elseBranch # Null
                          THEN Redeclared(<<stmt.elseBranch>>, names, local) ELSE <<>>)
               [] stmt.k = "While" -> Redeclared(<<stmt.body>>, names, local)
               [] OTHER -> <<>>
       IN here \o inside \o Redeclared(Tail(stmts), names, local)

\* the parameters that repeat the name of an earlier parameter
RedeclaredParams(params, seen) ==
  IF params = <<>> THEN <<>>
  ELSE (IF Head(params).lexeme \in seen THEN <<Head(params)>> ELSE <<>>)
         \o RedeclaredParams(Tail(params), seen \cup {Head(params).lexeme})

AlreadyDeclared == "Already a variable with this name in this scope."

\* C6: the resolver reports "Already a variable with this name in this scope." at exactly
\* the declarations (var, function, parameter) that repeat a name of the same block or
\* function scope, parameters and the body's own declarations forming one scope; nothing
\* is reported for a nested scope or at top level, and every such declaration of the
\* program is reported, the ones after the first report too.
C6_AlreadyDeclared ==
  /\ Resolved =>
       LET again == Redeclared(statements, {}, FALSE)
       IN ResolverDiags(AlreadyDeclared)
            = [i \in 1..Len(again) |-> ResolverDiag(again[i], AlreadyDeclared)]
  /\ (pc = "exit" /\ source = SrcRedeclared) =>
       /\ [i \in 1..Len(errs) |-> <<errs[i].line, errs[i].where, errs[i].msg>>]
            = << <<2, <<"'", "a", "'">>, AlreadyDeclared>>,
                 <<3, <<"'", "p", "'">>, AlreadyDeclared>>,
                 <<5, <<"'", "q", "'">>, AlreadyDeclared>>,
                 <<6, <<"'", "h", "'">>, AlreadyDeclared>>,
                 <<7, <<"'", "r", "'">>, AlreadyDeclared>> >>
       /\ exitCode = 65
  /\ (pc = "exit" /\ source = SrcShadowed) => errs = <<>> /\ exitCode = 0

\* C6 witness: the five repeated declarations of one program were all reported
C6_Witness ==
  /\ pc = "exit" /\ source = SrcRedeclared
  /\ Len(Redeclared(statements, {}, FALSE)) = 5 /\ Len(ResolverDiags(AlreadyDeclared)) = 5

RECURSIVE TopLevelReturns(_)
\* the keywords, in source order, of the return statements that are in no function body
TopLevelReturns(stmts) ==
  IF stmts = <<>> THEN <<>>
  ELSE LET stmt == Head(stmts)
           here ==
             CASE stmt.k = "Return" -> <<stmt.keyword>>
               [] stmt.k = "Block" -> TopLevelReturns(stmt.statements)
               [] stmt.k = "If" ->
                    TopLevelReturns(<<stmt.thenBranch>>)
                      \o (IF stmt.elseBranch # Null THEN TopLevelReturns(<<stmt.elseBranch>>)
                          ELSE <<>>)
               [] stmt.k = "While" -> TopLevelReturns(<<stmt.body>>)
               [] OTHER -> <<>>
       IN here \o TopLevelReturns(Tail(stmts))

TopLevelReturn == "Can't return from top-level code."

\* C7: in run mode a program that parses and has a return statement outside every
\* function body ends with exit code 65, with the diagnostic "Can't return from
\* top-level code." at the first such `return`, and without having run anything.
C7_TopLevelReturnRejected ==
  (pc = "exit" /\ command = "run" /\ resolver # Null /\ TopLevelReturns(statements) # <<>>) =>
    /\ exitCode = 65
    /\ out = <<>>
    /\ \E i \in 1..Len(errs) :
         errs[i] = ResolverDiag(TopLevelReturns(statements)[1], TopLevelReturn)

\* C8: a ReturnException stops being in flight only in LoxFunction.call, which turns it
\* into the value of the call; every other call it passes through lets it pass, it never
\* sets the runtime-error flag and never ends interpretStatements.
C8_ReturnCaughtAtCall ==
  [][ReturnRaised =>
       /\ hadRuntimeError' = hadRuntimeError
       /\ pc' = pc
       /\ IF Top.f = "call" THEN ctl' = Value(ctl.ex.value) /\ kont' = Pop
          ELSE ctl' = ctl /\ kont' = Pop]_vars

\* the call on top of the stack gets the value of its callee or of an argument
OperandEvaluated == Resuming("visitCallExpr", "value")

\* the callee and the arguments the call on top has, the value just evaluated included
CalleeSoFar == IF Top.at = "callee" THEN ctl.value ELSE Top.callee

ArgsSoFar == IF Top.at = "callee" THEN <<>> ELSE Append(Top.args, ctl.value)

\* the functions and the native clock
Callable(value) == value.t = "fn" \/ value = Native

\* the number of parameters of a callable
Parameters(callee) == IF callee = Native THEN 0 ELSE Len(funs[callee.id].declaration.params)

\* the step raises a RuntimeError at `token`
Raises(token, message) ==
  /\ ctl'.m = "throw" /\ ctl'.ex.x = "RuntimeError"
  /\ ctl'.ex.token = token /\ ctl'.ex.message = message

\* no call environment is made and no body is entered
NotEntered == envs' = envs /\ environment' = environment /\ kont' = Pop /\ out' = out

\* the outcome of a run: what it printed, the message and the line of its runtime error
Outcome(printed, message, line) ==
  /\ out = printed /\ exitCode = 70
  /\ errs = << [fmt |-> "message"] @@ message, [fmt |-> "line", line |-> line] >>

NotCallable == [msg |-> "Can only call functions and classes."]

WrongArity(n, m) == [msg |-> "Expected N arguments but got M.", N |-> n, M |-> m]

\* C9: a call evaluates its callee first and then its arguments from left to right,
\* whatever the callee is; only when all are evaluated a callee that is no callable
\* raises "Can only call functions and classes." and a callable given the wrong number
\* of arguments raises "Expected N arguments but got M.", both at the closing
\* parenthesis, without a call environment and without entering the body.
C9_CallChecks ==
  /\ [][Evaluating("Call") =>
          /\ ctl' = Eval(ctl.expr.callee)
          /\ Len(kont') = Len(kont) + 1 /\ kont'[Len(kont')].f = "visitCallExpr"]_vars
  /\ [][OperandEvaluated =>
          LET expr == Top.expr
              n == Len(ArgsSoFar)
          IN /\ expr.paren.type = "RIGHT_PAREN"
             /\ IF n < Len(expr.args)
                THEN /\ ctl' = Eval(expr.args[n + 1])
                     /\ envs' = envs /\ environment' = environment /\ out' = out
                ELSE IF ~Callable(CalleeSoFar)
                THEN Raises(expr.paren, NotCallable) /\ NotEntered
                ELSE IF n # Parameters(CalleeSoFar)
                THEN Raises(expr.paren, WrongArity(Parameters(CalleeSoFar), n)) /\ NotEntered
                ELSE ctl'.m # "throw"]_vars
  /\ [](pc = "exit" =>
          /\ source = SrcCallPrelude \o SrcCallString =>
               Outcome(<< <<"g">>, <<"g">> >>, NotCallable, 6)
          /\ source = SrcCallPrelude \o SrcCallTooMany =>
               Outcome(<< <<"g">>, <<"g">> >>, WrongArity(1, 2), 5)
          /\ source = SrcCallPrelude \o SrcCallTooFew => Outcome(<<>>, WrongArity(1, 0), 4)
          /\ source = SrcCallPrelude \o SrcCallClock =>
               Outcome(<< <<"g">> >>, WrongArity(0, 1), 4)
          /\ source = SrcCallPrelude \o SrcCallResult =>
               Outcome(<< <<"g">>, <<"b","o","d","y">>, <<"g">> >>, NotCallable, 4))

\* C9 witness: f, which has one parameter, is about to be refused its two arguments, both
\* already evaluated, on a later line than the call begins
C9_Witness ==
  /\ OperandEvaluated /\ Len(ArgsSoFar) = 2 /\ Len(Top.expr.args) = 2
  /\ Callable(CalleeSoFar) /\ CalleeSoFar # Native /\ Parameters(CalleeSoFar) = 1
  /\ Top.expr.paren.line > Top.expr.callee.name.line
  /\ out = << <<"g">>, <<"g">> >>

Arithmetic == {"MINUS", "STAR", "SLASH", "LESS", "LESS_EQUAL", "GREATER", "GREATER_EQUAL"}

Equalities == {"EQUAL_EQUAL", "BANG_EQUAL"}

IsNumber(value) == value.t = "num"

IsString(value) == value.t = "str"

\* what kind of value an operand text is
OperandKind(text) ==
  IF text = <<"1">> THEN "num" ELSE IF text = <<"n","i","l">> THEN "nil" ELSE "str"

\* what print writes for an operand text
OperandPrinted(text) == IF OperandKind(text) = "str" THEN <<text[2]>> ELSE text

\* whether the operation of a binary program must fail
MustFail(left, op, right) ==
  IF op \in {<<"!","=">>, <<"=","=">>} THEN FALSE
  ELSE IF op = <<"+">>
  THEN ~(OperandKind(left) = OperandKind(right) /\ OperandKind(left) \in {"num", "str"})
  ELSE ~(OperandKind(left) = "num" /\ OperandKind(right) = "num")

\* the binary expression on top of the stack gets the value of an operand
BinaryOperand(at) == Resuming("visitBinaryExpr", "value") /\ Top.at = at

\* C10: a binary expression evaluates its left operand, then its right operand whatever
\* the left one is, and checks the types only then: - * / < <= > >= raise "Operands must
\* be numbers." unless both are numbers, + raises "Operands must be two numbers or two
\* strings." unless both are numbers or both are strings, == and != never raise.  Every
\* program `print p(L) op p(R);` prints L and R before it fails or prints the result.
C10_BinaryOperandsFirst ==
  /\ [][Evaluating("Binary") =>
          /\ ctl' = Eval(ctl.expr.left)
          /\ Len(kont') = Len(kont) + 1 /\ kont'[Len(kont')].f = "visitBinaryExpr"
          /\ kont'[Len(kont')].at = "left"]_vars
  /\ [][BinaryOperand("left") =>
          /\ ctl' = Eval(Top.expr.right)
          /\ kont' = [kont EXCEPT ![Len(kont)].at = "right", ![Len(kont)].left = ctl.value]]_vars
  /\ [][BinaryOperand("right") =>
          LET operator == Top.expr.operator
              left == Top.left
              right == ctl.value
          IN /\ kont' = Pop
             /\ CASE operator.type \in Arithmetic ->
                       IF IsNumber(left) /\ IsNumber(right) THEN ctl'.m = "value"
                       ELSE Raises(operator, [msg |-> "Operands must be numbers."])
                  [] operator.type = "PLUS" ->
                       IF (IsNumber(left) /\ IsNumber(right)) \/ (IsString(left) /\ IsString(right))
                       THEN ctl'.m = "value"
                       ELSE Raises(operator,
                                   [msg |-> "Operands must be two numbers or two strings."])
                  [] operator.type \in Equalities ->
                       ctl'.m = "value" /\ ctl'.value \in {Bool(TRUE), Bool(FALSE)}]_vars
  /\ [](pc = "exit" =>
          \A left \in OperandTexts, op \in OperatorTexts, right \in OperandTexts :
            source = BinaryProgram(left, op, right) =>
              /\ Len(out) = IF MustFail(left, op, right) THEN 2 ELSE 4
              /\ out[1] = OperandPrinted(left) /\ out[2] = OperandPrinted(right)
              /\ exitCode = IF MustFail(left, op, right) THEN 70 ELSE 0)

\* C10 witness: the right operand of `"a" - 1` was evaluated and printed although the
\* left operand is a string, and the subtraction is about to fail
C10_Witness ==
  /\ BinaryOperand("right") /\ Top.expr.operator.type = "MINUS"
  /\ IsString(Top.left) /\ IsNumber(ctl.value)
  /\ out = << <<"a">>, <<"1">> >>

\* true or false as console.log prints it
BoolText(b) == IF b THEN <<"t","r","u","e">> ELSE <<"f","a","l","s","e">>

\* two operands denote the same value
SameValue(left, right) == left.variant = right.variant /\ left.key = right.key

\* C11: == is true exactly for one and the same value (so it is reflexive and symmetric,
\* false across variants and for nil against anything else, and by identity for
\* callables), != is its negation, and neither raises: with a = L and b = R the program
\* prints a == b, b == a, a != b and a == a as SameValue, SameValue, its negation, true.
C11_Equality ==
  pc = "exit" =>
    \A left \in EqualityOperands, right \in EqualityOperands :
      source = EqualityProgram(left.text, right.text) =>
        /\ exitCode = 0 /\ errs = <<>>
        /\ out = <<BoolText(SameValue(left, right)), BoolText(SameValue(right, left)),
                   BoolText(~SameValue(left, right)), BoolText(TRUE)>>

\* C11 witness: two closures made from one declaration were compared and are not equal
C11_Witness ==
  /\ pc = "exit"
  /\ source = EqualityProgram(<<"c">>, <<"d">>)
  /\ out = <<BoolText(FALSE), BoolText(FALSE), BoolText(TRUE), BoolText(TRUE)>>

\* how AstPrinter writes an operator applied to two operands already written
Printed(op, left, right) ==
  <<"(">> \o op.text \o <<" ">> \o left \o <<" ">> \o right \o <<")">>

\* every = of the text x1 op1 x2 op2 x3 has a bare variable on its left
WellFormed(x1, op1, x2, op2, x3) ==
  /\ op1.level = 1 => x1.variable
  /\ op2.level = 1 => op1.level = 1 /\ x2.variable

\* the tree the grammar defines for x1 op1 x2 op2 x3, as AstPrinter writes it: the
\* operator of the higher level binds first, and of two operators of one level the
\* left one, except that assignment nests to the right
Grammar(x1, op1, x2, op2, x3) ==
  IF op2.level > op1.level \/ (op1.level = 1 /\ op2.level = 1)
  THEN Printed(op1, x1.printed, Printed(op2, x2.printed, x3.printed))
  ELSE Printed(op2, Printed(op1, x1.printed, x2.printed), x3.printed)

\* C12: the parse command prints, for every well-formed expression of two operators
\* over terms (a variable, a negation, a call), the tree the grammar defines: levels
\* rise from assignment over or, and, equality, comparison, term, factor to unary and
\* call, and every binary and logical level nests to the left; and it prints the
\* trees of the four examples.
C12_GrammarTree ==
  pc = "exit" =>
    /\ \A x1 \in FirstTerms, op1 \in ExpressionOperators, x2 \in SecondTerms,
          op2 \in ExpressionOperators, x3 \in ThirdTerms :
         (source = ExpressionText(x1, op1, x2, op2, x3) /\ WellFormed(x1, op1, x2, op2, x3)) =>
           /\ exitCode = 0 /\ errs = <<>>
           /\ out = <<Grammar(x1, op1, x2, op2, x3)>>
    /\ source = SrcExprSubtract => out = <<<<"(","-"," ","(","-"," ","a"," ","b",")"," ","c",")">>>>
    /\ source = SrcExprLogical => out = <<<<"(","o","r"," ","a"," ","(","a","n","d"," ","b"," ",
            "c",")",")">>>>
    /\ source = SrcExprUnary => out = <<<<"(","*"," ","(","-"," ","a",")"," ","b",")">>>>
    /\ source = SrcExprGroup => out = <<<<"(","*"," ","(","g","r","o","u","p"," ","(","+"," ","1",
            ".","0"," ","2",".","0",")",")"," ","(","-"," ","3",".","0",")",")">>>>

\* C12 witness: -a or f(b) - !-1 was printed, its second operator binding first
C12_Witness ==
  /\ pc = "exit"
  /\ source = <<"-","a"," ","o","r"," ","f","(","b",")"," ","-"," ","!","-","1">>
  /\ out = <<<<"(","o","r"," ","(","-"," ","a",")"," ","(","-"," ","(","c","a","l","l"," ","f",
          " ","b",")"," ","(","!"," ","(","-"," ","1",".","0",")",")",")",")">>>>

\* the diagnostic of an = whose left side is no bare variable (the texts have one line)
InvalidTarget ==
  [fmt |-> "parse", line |-> 1, where |-> <<"'","=","'">>, msg |-> "Invalid assignment target."]

\* how many = of the text x1 op1 x2 op2 x3 have something else than a bare variable
\* on their left: the left side of the second = is x2 after a first =, and the whole
\* of x1 op1 x2 otherwise
InvalidTargets(x1, op1, x2, op2, x3) ==
  (IF op2.level = 1 /\ (op1.level # 1 \/ ~x2.variable) THEN 1 ELSE 0)
    + (IF op1.level = 1 /\ ~x1.variable THEN 1 ELSE 0)

\* what parse() returns for x1 op1 x2 op2 x3, as AstPrinter writes it: an = with an
\* invalid target yields its left side, the right side dropped
Assigned(x1, op1, x2, op2, x3) ==
  IF op1.level = 1
  THEN LET value == IF op2.level = 1 /\ ~x2.variable THEN x2.printed
                    ELSE Printed(op2, x2.printed, x3.printed)
       IN IF x1.variable THEN Printed(op1, x1.printed, value) ELSE x1.printed
  ELSE IF op2.level = 1 THEN Printed(op1, x1.printed, x2.printed)
  ELSE Grammar(x1, op1, x2, op2, x3)

\* parse() has returned
Parsed == pc = "parsedExpression" \/ (pc = "exit" /\ parser # Null)

\* the text was parsed to its end into the tree AstPrinter writes as `printed`, and
\* `count` invalid assignment targets were recorded, none thrown
Recorded(count, printed) ==
  /\ parser.hadError = (count > 0)
  /\ parser.diags = [i \in 1..count |-> InvalidTarget]
  /\ errs = parser.diags
  /\ parsedExpression # Null /\ astPrint(parsedExpression) = printed
  /\ peek(parser).type = "EOF"
  /\ pc = "exit" => /\ exitCode = IF count > 0 THEN 65 ELSE 0
                    /\ out = IF count > 0 THEN <<>> ELSE <<printed>>

\* C13: a = b = c is Assign(a, Assign(b, c)); an = whose left side is anything but a
\* bare variable records "Invalid assignment target." at that = and sets the flag
\* without throwing: parse() still returns a tree, in which the = yields its left
\* side, the right side has been consumed, and parsing goes on with the tokens after it.
C13_AssignmentTarget ==
  Parsed =>
    /\ \A x1 \in FirstTerms, op1 \in ExpressionOperators, x2 \in SecondTerms,
          op2 \in ExpressionOperators, x3 \in ThirdTerms :
         source = ExpressionText(x1, op1, x2, op2, x3) =>
           Recorded(InvalidTargets(x1, op1, x2, op2, x3), Assigned(x1, op1, x2, op2, x3))
    /\ source = <<"a"," ","="," ","b"," ","="," ","c">> =>
         /\ parsedExpression.k = "Assign" /\ parsedExpression.name.lexeme = <<"a">>
         /\ parsedExpression.value.k = "Assign" /\ parsedExpression.value.name.lexeme = <<"b">>
         /\ parsedExpression.value.value.k = "Variable"
         /\ parsedExpression.value.value.name.lexeme = <<"c">>
    /\ source = SrcTargetGroup => Recorded(1, <<"(","g","r","o","u","p"," ","a",")">>)
    /\ source = SrcTargetBinary => Recorded(1, <<"(","+"," ","a"," ","b",")">>)
    /\ source = SrcTargetCall => Recorded(1, <<"(","c","a","l","l"," ","f",")">>)
    /\ source = SrcTargetArgument => Recorded(1, <<"(","c","a","l","l"," ","f"," ","(","g","r",
            "o","u","p"," ","a",")"," ","b",")">>)
    /\ source = SrcTargetNested => Recorded(1, <<"(","="," ","a"," ","(","g","r","o","u","p"," ",
            "b",")",")">>)

\* C13 witness: f((a) = 1, b) was parsed to its end with one invalid target
C13_Witness ==
  /\ pc = "exit" /\ exitCode = 65
  /\ source = SrcTargetArgument
  /\ parser.diags = <<InvalidTarget>>
  /\ astPrint(parsedExpression) = <<"(","c","a","l","l"," ","f"," ","(","g","r","o","u","p"," ",
          "a",")"," ","b",")">>

\* the parse errors that error() made and the caller threw: every one but the invalid
\* assignment target
ThrownDiags == {i \in 1..Len(parser.diags) : parser.diags[i].msg # "Invalid assignment target."}

\* C14 as stated: whenever the error flag is set when parse() finishes, parse()
\* returned null.
C14_NullOnError == Parsed => (parser.hadError => parsedExpression = Null)

\* C14, amended: parse() returns null exactly when a parse error was thrown, which
\* ends the parse (the thrown error is the last one recorded); when the only errors
\* recorded are invalid assignment targets the flag is set and parse() returns the
\* expression.  Either way the parse command prints nothing and exits with 65.
C14_NullWhenThrown ==
  Parsed =>
    /\ parser.hadError = (parser.diags # <<>>)
    /\ (parsedExpression = Null) = (ThrownDiags # {})
    /\ ThrownDiags \subseteq {Len(parser.diags)}
    /\ (pc = "exit" /\ parser.hadError) => (exitCode = 65 /\ out = <<>>)

\* C14 witness: in f((a) = 1, ) an invalid target was recorded, then the error of the
\* missing argument was thrown and parse() returned null
C14_Witness ==
  /\ pc = "exit" /\ exitCode = 65
  /\ source = SrcTargetThenThrown
  /\ Len(parser.diags) = 2 /\ parser.diags[1] = InvalidTarget
  /\ parser.diags[2].msg = "Expect expression."
  /\ parsedExpression = Null

\* the statement a for of the family was desugared to: the second statement of f's body
ForOf(decl) == decl.body[2]

\* the body B of the for programs: a block that starts with the if and the print
IsForBody(stmt, length) ==
  /\ stmt.k = "Block" /\ Len(stmt.statements) = length
  /\ stmt.statements[1].k = "If" /\ stmt.statements[2].k = "Print"

\* stmt is While(C, body): the condition written, or Literal(true) when none was; the
\* body is Block([B, ExprStmt(U)]) with an increment and B itself without
IsForLoop(stmt, cond, incr) ==
  /\ stmt.k = "While"
  /\ IF cond THEN stmt.condition.k = "Binary" /\ stmt.condition.operator.type = "LESS"
     ELSE stmt.condition = Literal(Bool(TRUE))
  /\ IF incr
     THEN /\ stmt.body.k = "Block" /\ Len(stmt.body.statements) = 2
          /\ IsForBody(stmt.body.statements[1], 2)
          /\ stmt.body.statements[2].k = "Expression"
          /\ stmt.body.statements[2].expression.k = "Assign"
     ELSE IsForBody(stmt.body, 3)

\* stmt is what for (I; C; U) B desugars to: Block([I, While]) with an initializer,
\* the bare While without
IsDesugared(stmt, init, cond, incr) ==
  IF init = "none" THEN IsForLoop(stmt, cond, incr)
  ELSE /\ stmt.k = "Block" /\ Len(stmt.statements) = 2
       /\ IF init = "var" THEN stmt.statements[1].k = "Var"
          ELSE stmt.statements[1].k = "Expression" /\ stmt.statements[1].expression.k = "Assign"
       /\ IsForLoop(stmt.statements[2], cond, incr)

\* parseStatements() has returned
StatementsParsed == pc \notin {"start", "scanned", "parse"} /\ parser # Null

\* C15: for (I; C; U) B is parsed, for each combination of I (a var declaration, an
\* expression statement or none), C and U present or not, into While(C or true, body)
\* with body Block([B, ExprStmt(U)]) or B, inside Block([I, While]) when there is an I;
\* the programs then print 0 and 1 (and reach the statement after the loop exactly
\* when the condition ends it), and for (var i = 0; i < 3; i = i + 1) print i; prints
\* 0, 1, 2 and leaves the global environment without a binding of i.
C15_ForDesugared ==
  /\ \A init \in ForInitializers, cond \in BOOLEAN, incr \in BOOLEAN :
       source = ForProgram(init, cond, incr) =>
         /\ StatementsParsed =>
              /\ ~parser.hadError /\ Len(statements) = 2
              /\ IsDesugared(ForOf(statements[1]), init, cond, incr)
         /\ pc = "exit" =>
              /\ exitCode = 0 /\ errs = <<>>
              /\ out = IF cond THEN <<<<"0">>, <<"1">>, <<"d","o","n","e">>>> ELSE <<<<"0">>,
                      <<"1">>>>
  /\ source = SrcFor =>
       /\ StatementsParsed =>
            /\ ~parser.hadError /\ Len(statements) = 1
            /\ statements[1].k = "Block" /\ Len(statements[1].statements) = 2
            /\ statements[1].statements[1].k = "Var"
            /\ statements[1].statements[2].k = "While"
            /\ statements[1].statements[2].condition.k = "Binary"
            /\ statements[1].statements[2].body.k = "Block"
            /\ Len(statements[1].statements[2].body.statements) = 2
            /\ statements[1].statements[2].body.statements[1].k = "Print"
            /\ statements[1].statements[2].body.statements[2].k = "Expression"
       /\ pc = "exit" =>
            /\ exitCode = 0 /\ errs = <<>>
            /\ out = <<<<"0">>, <<"1">>, <<"2">>>>
            /\ environment = globals
            /\ ~MapHas(envs[globals].values, <<"i">>)

\* C15 witness: the for without initializer, condition and increment ran as the bare
\* While(true, B) and was left by the return
C15_Witness ==
  /\ pc = "exit"
  /\ source = ForProgram("none", FALSE, FALSE)
  /\ ForOf(statements[1]).k = "While"
  /\ ForOf(statements[1]).condition = Literal(Bool(TRUE))
  /\ out = <<<<"0">>, <<"1">>>>

\* scanTokens() has returned
Scanned == pc # "start"

\* C16: for every source, the empty one and those with scan errors included, the token
\* list scanTokens returns holds exactly one EOF token, which is the last one and has
\* the empty lexeme (and no EOF token is in the list before scanTokens returns).
C16_OneEofLast ==
  LET tokens == scanner.tokens
      eofs == {i \in 1..Len(tokens) : tokens[i].type = "EOF"}
  IN IF Scanned
     THEN eofs = {Len(tokens)} /\ tokens # <<>> /\ tokens[Len(tokens)].lexeme = <<>>
     ELSE eofs = {}

\* C16 witness: the scan of a text with an unexpected character and an unterminated
\* string returned nothing but EOF
C16_Witness ==
  /\ Scanned
  /\ source = <<"@", "\"", "a">>
  /\ scanner.hadError /\ Len(scanner.diags) = 2
  /\ Len(scanner.tokens) = 1 /\ scanner.tokens[1].type = "EOF"

\* the source characters a turn of the scanner's loop consumes
Piece == SubSeq(source, scanner.current + 1, scanner'.current)

\* the turn adds one token, and no diagnostic
TokenAdded ==
  /\ Len(scanner'.tokens) = Len(scanner.tokens) + 1
  /\ SubSeq(scanner'.tokens, 1, Len(scanner.tokens)) = scanner.tokens
  /\ scanner'.diags = scanner.diags

\* the turn adds no token
NothingAdded == scanner'.tokens = scanner.tokens

Whitespace == {" ", "\t", "\r", "\n"}

\* the turn skips one whitespace character
SkipsWhitespace == Len(Piece) = 1 /\ Piece[1] \in Whitespace /\ scanner'.diags = scanner.diags

\* the turn skips a comment: from // to the end of the line, the newline left
SkipsComment ==
  /\ Len(Piece) >= 2 /\ Piece[1] = "/" /\ Piece[2] = "/"
  /\ \A i \in 1..Len(Piece) : Piece[i] # "\n"
  /\ scanner'.current = Len(source) \/ source[scanner'.current + 1] = "\n"
  /\ scanner'.diags = scanner.diags

\* the turn skips one unexpected character and records it
SkipsUnexpected ==
  /\ Len(Piece) = 1
  /\ Piece[1] \notin Whitespace /\ ~isAlphaNumeric(Piece[1])
  /\ Len(scanner'.diags) = Len(scanner.diags) + 1
  /\ scanner'.diags[Len(scanner'.diags)].msg = "Unexpected character: "
  /\ scanner'.diags[Len(scanner'.diags)].c = Piece[1]

\* the turn skips an unterminated string, from its quote to the end of the source
SkipsUnterminated ==
  /\ Piece # <<>> /\ Piece[1] = "\""
  /\ \A i \in 2..Len(Piece) : Piece[i] # "\""
  /\ scanner'.current = Len(source)
  /\ Len(scanner'.diags) = Len(scanner.diags) + 1
  /\ scanner'.diags[Len(scanner'.diags)].msg = "Unterminated string."

\* a turn of the loop of scanTokens
ScanTurn == pc = "start" /\ ~scanIsAtEnd(scanner) /\ scanner' # scanner

\* C17 as stated: the lexemes in order give back the source up to whitespace: every
\* turn of the scanner consumes either the lexeme of the token it adds or one
\* whitespace character, and the scan ends at the end of the source.
C17_OnlyWhitespaceDropped ==
  /\ [](Scanned => scanner.current = Len(source))
  /\ [][ScanTurn =>
          \/ TokenAdded /\ scanner'.tokens[Len(scanner'.tokens)].lexeme = Piece
          \/ NothingAdded /\ SkipsWhitespace]_vars

\* C17, amended: the lexemes and the skipped pieces in order give back the source:
\* every turn of the scanner consumes either the lexeme of the token it adds or a
\* piece that appears in no lexeme, which is one whitespace character outside a
\* string, a comment up to its newline, one unexpected character, or an unterminated
\* string up to the end of the source; and the scan ends at the end of the source.
C17_LexemesAndSkipped ==
  /\ [](Scanned => scanner.current = Len(source))
  /\ [][ScanTurn =>
          /\ Piece # <<>>
          /\ \/ TokenAdded /\ scanner'.tokens[Len(scanner'.tokens)].lexeme = Piece
             \/ NothingAdded /\ (\/ SkipsWhitespace
                                 \/ SkipsComment
                                 \/ SkipsUnexpected
                                 \/ SkipsUnterminated)]_vars

\* C17 witness: a text with comments, unexpected characters, a string of two lines
\* and an unterminated string was scanned into the tokens a, the string, b and EOF
C17_Witness ==
  /\ Scanned
  /\ source = SrcScanLines
  /\ [i \in 1..Len(scanner.tokens) |-> scanner.tokens[i].lexeme]
       = <<<<"a">>, <<"\"", "x", "\n", "y", "\"">>, <<"b">>, <<>>>>
  /\ Len(scanner.diags) = 3

RECURSIVE UnexpectedFrom(_)
\* the positions of the unexpected characters of a text, from the scanner's state on:
\* the characters at which a turn of the loop records "Unexpected character"
UnexpectedFrom(sc) ==
  IF scanIsAtEnd(sc) THEN {}
  ELSE LET next == scanNext(sc)
           found == /\ Len(next.diags) > Len(sc.diags)
                    /\ next.diags[Len(next.diags)].msg = "Unexpected character: "
       IN (IF found THEN {sc.current + 1} ELSE {}) \cup UnexpectedFrom(next)

Unexpected(text) == UnexpectedFrom(NewScanner(text))

\* the text with each unexpected character replaced by a space
Replaced(text) == [i \in 1..Len(text) |-> IF i \in Unexpected(text) THEN " " ELSE text[i]]

\* the diagnostics of unexpected characters
UnexpectedDiags == SelectSeq(scanner.diags, LAMBDA d : d.msg = "Unexpected character: ")

\* 1 plus the newlines of the text before position i
LineAt(text, i) == 1 + Cardinality({j \in 1..(i - 1) : text[j] = "\n"})

RECURSIVE InOrder(_, _)
\* the diagnostics of the unexpected characters at the positions, in source order
InOrder(text, positions) ==
  IF positions = {} THEN <<>>
  ELSE LET i == CHOOSE p \in positions : \A q \in positions : p <= q
       IN <<[fmt |-> "scan", line |-> LineAt(text, i), msg |-> "Unexpected character: ",
             c |-> text[i]]>> \o InOrder(text, positions \ {i})

\* C18: a scan error neither stops nor distorts the scan: the tokens are those of the
\* source with every unexpected character replaced by a space, each unexpected
\* character has its diagnostic, in source order, the error flag is set exactly when
\* a diagnostic was recorded and is never reset, and tokenize still prints every token
\* and exits with 65 exactly when the flag is set.
C18_ScanErrorsSkipped ==
  /\ [](Scanned =>
          /\ scanner.tokens = scanTokens(NewScanner(Replaced(source))).tokens
          /\ UnexpectedDiags = InOrder(source, Unexpected(source)))
  /\ [](scanner.hadError = (scanner.diags # <<>>) /\ errs = scanner.diags)
  /\ [][scanner.hadError => scanner'.hadError]_vars
  /\ [](pc = "exit" =>
          /\ Len(out) = Len(scanner.tokens)
          /\ \A i \in 1..Len(out) :
               /\ out[i][1] = scanner.tokens[i].type
               /\ SubSeq(out[i], 3, 2 + Len(scanner.tokens[i].lexeme)) = scanner.tokens[i].lexeme
          /\ exitCode = IF scanner.hadError THEN 65 ELSE 0)

\* C18 witness: 1@= was tokenized: the number, the equal sign and EOF were printed
\* after the diagnostic of @, and the exit code is 65
C18_Witness ==
  /\ pc = "exit" /\ exitCode = 65
  /\ source = <<"1", "@", "=">>
  /\ Len(scanner.diags) = 1 /\ scanner.diags[1].c = "@"
  /\ out = << <<"NUMBER", " ", "1", " ", "1", ".", "0">>,
              <<"EQUAL", " ", "=", " ", "n", "u", "l", "l">>,
              <<"EOF", " ", " ", "n", "u", "l", "l">> >>

\* the number of newlines of a text
Newlines(text) == Cardinality({i \in 1..Len(text) : text[i] = "\n"})

\* the source after the character the turn starts at
AfterFirst == SubSeq(source, scanner.current + 2, Len(source))

\* the positions of the quotes in a text
Quotes(text) == {i \in 1..Len(text) : text[i] = "\""}

\* the text up to its first quote
Enclosed(text) == SubSeq(text, 1, (CHOOSE i \in Quotes(text) : \A j \in Quotes(text) : i <= j) - 1)

UnterminatedDiags == {i \in 1..Len(scanner.diags) : scanner.diags[i].msg = "Unterminated string."}

\* C19: a turn of the scanner that starts at a quote with no quote after it records
\* one "Unterminated string." whose line is the line of the end of the source (the
\* line of the opening quote plus the newlines after it), adds no token and leaves the
\* scanner at the end, so that EOF is the next and last token; with a quote after it,
\* the turn adds one STRING token whose literal is the characters between the two
\* quotes, newlines included, and records nothing.
C19_Strings ==
  /\ [][(ScanTurn /\ source[scanner.current + 1] = "\"") =>
          IF Quotes(AfterFirst) = {}
          THEN /\ scanner'.tokens = scanner.tokens
               /\ scanner'.diags =
                    Append(scanner.diags,
                           [fmt |-> "scan", line |-> scanner.line + Newlines(AfterFirst),
                            msg |-> "Unterminated string."])
               /\ scanner'.current = Len(source)
               /\ scanner'.hadError
          ELSE /\ scanner'.tokens =
                    Append(scanner.tokens,
                           Token("STRING", <<"\"">> \o Enclosed(AfterFirst) \o <<"\"">>,
                                 Str(Enclosed(AfterFirst)),
                                 scanner.line + Newlines(Enclosed(AfterFirst))))
               /\ scanner'.diags = scanner.diags
               /\ scanner'.current = scanner.current + Len(Enclosed(AfterFirst)) + 2]_vars
  /\ [](Cardinality(UnterminatedDiags) <= 1)
  /\ []((Scanned /\ UnterminatedDiags # {}) =>
          /\ UnterminatedDiags = {Len(scanner.diags)}
          /\ scanner.diags[Len(scanner.diags)].line = 1 + Newlines(source)
          /\ scanner.tokens[Len(scanner.tokens)] = Token("EOF", <<>>, Nil, 1 + Newlines(source)))

\* C19 witness: in a"<newline>1 the string is not terminated: the error is on line 2
\* and the tokens are a and EOF
C19_Witness ==
  /\ Scanned
  /\ source = <<"a", "\"", "\n", "1">>
  /\ scanner.diags = <<[fmt |-> "scan", line |-> 2, msg |-> "Unterminated string."]>>
  /\ scanner.tokens = <<Token("IDENTIFIER", <<"a">>, Nil, 1), Token("EOF", <<>>, Nil, 2)>>

\* 1 plus the newlines of the source that the scanner has read
LineRead(sc) == 1 + Newlines(SubSeq(source, 1, sc.current))

\* C20: every token carries 1 plus the number of newlines of the source before the end
\* of its lexeme, whether they lie in whitespace, end a comment or are inside a string
\* (a string of several lines carries the line of its closing quote); EOF carries 1
\* plus the number of all newlines; and the lines never decrease along the token list.
C20_TokenLines ==
  /\ [][(ScanTurn /\ TokenAdded) =>
          scanner'.tokens[Len(scanner'.tokens)].line = LineRead(scanner')]_vars
  /\ [](scanner.line = LineRead(scanner))
  /\ [](Scanned => scanner.tokens[Len(scanner.tokens)].line = 1 + Newlines(source))
  /\ [](\A i \in 1..Len(scanner.tokens), j \in 1..Len(scanner.tokens) :
          i <= j => scanner.tokens[i].line <= scanner.tokens[j].line)

\* C20 witness: a string with a newline inside, then a number: both are on line 2
C20_Witness ==
  /\ Scanned
  /\ source = <<"\"", "\n", "\"", "1">>
  /\ scanner.tokens = <<Token("STRING", <<"\"", "\n", "\"">>, Str(<<"\n">>), 2),
                        Token("NUMBER", <<"1">>, Num(1), 2),
                        Token("EOF", <<>>, Nil, 2)>>

\* C21: the parser never returns a result silently for input it did not fully parse.
\* In expression mode: when parse() returns an expression and the error flag is unset,
\* the expression consumed every token before EOF.
C21_ExpressionConsumesAll ==
  pc = "parsedExpression" /\ parsedExpression # Null /\ ~parser.hadError => isAtEnd(parser)

\* the parser with its cursor at token i
At(i) == [parser EXCEPT !.current = i]

\* the cursors where declaration() can be called: any token before EOF
Cursors == {i \in 0..(Len(parser.tokens) - 1) : ~isAtEnd(At(i))}

StatementKeywords == {"CLASS", "FUN", "VAR", "FOR", "IF", "WHILE", "PRINT", "RETURN"}

\* the parser resumes at p: at EOF, right after a semicolon or right before a keyword
ResumesAt(p) ==
  \/ isAtEnd(p)
  \/ previous(p).type = "SEMICOLON"
  \/ peek(p).type \in StatementKeywords

\* declaration() called at cursor i, when its try block throws: no statement, at least
\* one token discarded unless at EOF, and the parser resumes at the first cursor after
\* the discarded token where it can
Recovers(i) ==
  LET tried == declarationTry(At(i))
      caught == declaration(At(i))
  IN tried.thrown =>
       /\ caught.node = Null /\ ~caught.thrown
       /\ pushParsed(caught, statements).node = statements
       /\ isAtEnd(tried.p) \/ caught.p.current > tried.p.current
       /\ ResumesAt(caught.p)
       /\ \A j \in (tried.p.current + 1)..(caught.p.current - 1) :
            ~ResumesAt([tried.p EXCEPT !.current = j])

\* a turn of the loop of parseStatements after an earlier error: a declaration that
\* parses is returned, one that fails is reported
GoesOn ==
  pc = "parse" /\ ~isAtEnd(parser) /\ parser.hadError =>
    LET tried == declarationTry(parser)
    IN /\ ~tried.thrown => statements' = Append(statements, tried.node)
       /\ tried.thrown => /\ statements' = statements
                          /\ Len(errs') > Len(errs)
                          /\ errs' = errs \o NewDiags(parser, tried.p)

\* SrcRecoverKeywords: var a; print 8; follow the seven failed declarations
AfterKeywords ==
  pc = "parsed" /\ source = SrcRecoverKeywords =>
    /\ Len(statements) = 2 /\ statements[1].k = "Var" /\ statements[2].k = "Print"
    /\ Len(parser.diags) = 7

\* C29: parser error recovery.  After a parse error is thrown inside a declaration, at
\* top level or inside a block, the failed declaration contributes no statement,
\* synchronize discards at least one token unless the parser is at EOF, and parsing
\* resumes at EOF, right after a semicolon or right before a statement keyword, at the
\* first such place; declarations parsed afterwards are still returned and later errors
\* are still reported.
C29_Recovery ==
  /\ [](pc = "parsed" => \A i \in Cursors : Recovers(i))
  /\ [](AfterKeywords)
  /\ [][GoesOn]_vars

\* an error inside a block was recovered from inside the block: the block is returned
\* with the statement after the error, and so is the statement after the block
C29_Witness ==
  /\ pc = "parsed" /\ source = SrcRecoverBlock
  /\ statements = <<Block(<<PrintStmt(Literal(Num(2)))>>), PrintStmt(Literal(Num(3)))>>
  /\ Len(parser.diags) = 1

\* the methods of the parser
Methods ==
  {"expression", "assignment", "or", "and", "equality", "comparison", "term", "factor",
   "unary", "call", "primary", "declaration", "function", "varDeclaration", "statement",
   "forStatement", "ifStatement", "printStatement", "returnStatement", "whileStatement",
   "block", "expressionStatement"}

\* the cursors where a method can be called: returnStatement follows the keyword
CursorsOf(method) ==
  (IF method = "returnStatement" THEN 1 ELSE 0)..(Len(parser.tokens) - 1)

\* the cursor is on a token
OnToken(p) == p.current \in 0..(Len(p.tokens) - 1)

\* no method, called at any cursor, moves the cursor back or past EOF
Forward ==
  /\ \A method \in Methods : \A i \in CursorsOf(method) :
       LET after == rule(method, At(i)).p IN after.current >= i /\ OnToken(after)
  /\ \A i \in CursorsOf("declaration") :
       LET after == synchronize(At(i)) IN after.current >= i /\ OnToken(after)

\* a turn of the loop of block, at any cursor where the loop goes on, consumes a token
BlockTurn ==
  \A i \in Cursors : ~check(At(i), "RIGHT_BRACE") => declaration(At(i)).p.current > i

\* the parser of a step and the one after it: the cursor does not go back, and a turn of
\* the loop of parseStatements consumes a token
Advances ==
  parser # Null /\ parser' # Null =>
    /\ parser'.current >= parser.current
    /\ pc = "parse" /\ ~isAtEnd(parser) => parser'.current > parser.current

\* C30: the parser terminates on every finite token list that ends in EOF, well-formed
\* or not: the cursor never decreases and never passes EOF, and every turn of the loop of
\* parseStatements and of the loop of block consumes at least one token, so that the
\* number of tokens left before EOF bounds the turns of every loop.
C30_ParserTerminates ==
  /\ [](parser # Null => OnToken(parser))
  /\ [](pc = "parsed" => Forward /\ BlockTurn)
  /\ [][Advances]_vars

\* synchronize skipped past the closing brace of a block, and the error of the block
\* that is never closed came at EOF: two errors, nothing returned, the cursor on EOF
C30_Witness ==
  /\ pc = "parsed" /\ source = SrcRecoverPastBrace
  /\ Len(parser.diags) = 2 /\ parser.diags[2].where = <<"e","n","d">>
  /\ statements = <<>>
  /\ isAtEnd(parser)

RECURSIVE Enclosing(_)
\* the number of environments that enclose environment e
Enclosing(e) == IF envs[e].enclosing = NoEnv THEN 0 ELSE 1 + Enclosing(envs[e].enclosing)

RECURSIVE Hops(_, _)
\* the environment reached from e after exactly d hops, where there are that many
Hops(e, d) == IF d = 0 THEN e ELSE Hops(envs[e].enclosing, d - 1)

\* the Variable or Assign node the evaluator is about to look up or to write, if any
Resolving ==
  IF Evaluating("Variable") THEN ctl.expr
  ELSE IF Resuming("visitAssignExpr", "value") THEN Top.expr
  ELSE Null

\* from environment, d hops lead to an environment that binds the name
Bound(name, d) ==
  /\ Enclosing(environment) >= d
  /\ MapHas(envs[Hops(environment, d)].values, name.lexeme)
  /\ getAt(envs, environment, d, name.lexeme) # Undefined

\* the evaluator is inside the initializer of the declaration of the name, in the
\* environment of the declaration
InOwnInitializer(name) ==
  \E i \in 1..Len(kont) :
    /\ kont[i].f = "visitVarStmt" /\ kont[i].stmt.name.lexeme = name.lexeme
    /\ \A j \in (i + 1)..Len(kont) : kont[j].f \notin {"executeBlock", "call"}

Target(expr) == IF MapHas(locals, expr.id) THEN Hops(environment, locals[expr.id]) ELSE globals

\* an environment nearer than the target, on the chain of the current one, binds the name
Nearer(expr) ==
  \E d \in 0..Enclosing(environment) :
    /\ MapHas(envs[Hops(environment, d)].values, expr.name.lexeme)
    /\ Hops(environment, d) # Target(expr)
    /\ \A n \in 0..d : Hops(environment, n) # Target(expr)

\* a read yields the binding of the target and a write changes it, whatever the
\* environments on the way bind; evaluation leaves the side table alone
Static ==
  /\ Evaluating("Variable") /\ MapHas(envs[Target(ctl.expr)].values, ctl.expr.name.lexeme)
       => ctl' = Value(envs[Target(ctl.expr)].values[ctl.expr.name.lexeme])
  /\ Resuming("visitAssignExpr", "value")
       /\ MapHas(envs[Target(Top.expr)].values, Top.expr.name.lexeme)
       => envs' = [envs EXCEPT ![Target(Top.expr)].values[Top.expr.name.lexeme] = ctl.value]
  /\ Running => locals' = locals

\* what a program of StaticPrograms prints: show prints the outer a at both calls
StaticPrinted(assigns) ==
  IF assigns THEN <<<<"o","u","t","e","r","!">>, <<"o","u","t","e","r","!","!">>, <<"b","l","o","c","k">>, <<"o","u","t","e","r","!","!">>>>
  ELSE <<<<"o","u","t","e","r">>, <<"o","u","t","e","r">>, <<"b","l","o","c","k">>, <<"o","u","t","e","r">>>>

\* C23: variable binding is static.  A variable reference inside a function body refers
\* to the same declaration on every evaluation: declaring a same-named variable in the
\* enclosing block after the function declaration does not change what the function
\* reads or assigns, and SrcStatic prints global twice.
C23_StaticBinding ==
  /\ [][Static]_vars
  /\ [](pc = "exit" =>
          /\ source = SrcStatic => out = <<<<"g","l","o","b","a","l">>, <<"g","l","o","b","a","l">>>>
          /\ \A nested \in BOOLEAN, assigns \in BOOLEAN :
               source = StaticProgram(nested, assigns) => out = StaticPrinted(assigns))

\* the second call of show in SrcStatic reads a: the block that encloses show binds a
\* by now, the side table has no entry for the node and the globals are read
C23_Witness ==
  /\ source = SrcStatic /\ out = <<<<"g","l","o","b","a","l">>>>
  /\ Evaluating("Variable") /\ ctl.expr.name.lexeme = <<"a">>
  /\ ~MapHas(locals, ctl.expr.id)
  /\ envs[envs[environment].enclosing].values[<<"a">>] = Str(<<"b","l","o","c","k">>)
  /\ Nearer(ctl.expr)

RECURSIVE IdsOfExpr(_), IdsOfExprs(_), IdsOfStmt(_), IdsOfStmts(_)
\* the identities of the Variable and Assign nodes of an expression
IdsOfExpr(expr) ==
  CASE expr.k = "Variable" -> {expr.id}
    [] expr.k = "Assign" -> {expr.id} \cup IdsOfExpr(expr.value)
    [] expr.k \in {"Binary", "Logical"} -> IdsOfExpr(expr.left) \cup IdsOfExpr(expr.right)
    [] expr.k = "Unary" -> IdsOfExpr(expr.right)
    [] expr.k = "Grouping" -> IdsOfExpr(expr.expression)
    [] expr.k = "Call" -> IdsOfExpr(expr.callee) \cup IdsOfExprs(expr.args)
    [] OTHER -> {}

IdsOfExprs(exprs) ==
  IF exprs = <<>> THEN {} ELSE IdsOfExpr(Head(exprs)) \cup IdsOfExprs(Tail(exprs))

\* the identities of the Variable and Assign nodes of a statement
IdsOfStmt(stmt) ==
  CASE stmt.k \in {"Expression", "Print"} -> IdsOfExpr(stmt.expression)
    [] stmt.k = "Var" -> IF stmt.initializer # Null THEN IdsOfExpr(stmt.initializer) ELSE {}
    [] stmt.k = "Block" -> IdsOfStmts(stmt.statements)
    [] stmt.k = "If" ->
         IdsOfExpr(stmt.condition) \cup IdsOfStmt(stmt.thenBranch)
           \cup (IF stmt.elseBranch # Null THEN IdsOfStmt(stmt.elseBranch) ELSE {})
    [] stmt.k = "While" -> IdsOfExpr(stmt.condition) \cup IdsOfStmt(stmt.body)
    [] stmt.k = "Function" -> IdsOfStmts(stmt.body)
    [] stmt.k = "Return" -> IF stmt.value # Null THEN IdsOfExpr(stmt.value) ELSE {}

IdsOfStmts(stmts) ==
  IF stmts = <<>> THEN {} ELSE IdsOfStmt(Head(stmts)) \cup IdsOfStmts(Tail(stmts))

\* resolveLocal for a node named name, visited while the scope stack is scopes: an entry
\* exactly when a scope has the name, with the distance from the innermost scope to the
\* innermost one that has it; nothing else of the resolver changes
Nearest(scopes, name) ==
  LET token == Token("IDENTIFIER", name, Nil, 1)
      r == [NewResolver EXCEPT !.scopes = scopes]
      after == resolveLocal(r, Variable(token, 7), token)
      holders == {i \in 1..Len(scopes) : name \in DOMAIN scopes[i]}
  IN /\ [after EXCEPT !.locals = EmptyMap] = r
     /\ holders = {} => after.locals = EmptyMap
     /\ holders # {} =>
          \E i \in holders :
            /\ \A j \in holders : j <= i
            /\ after.locals = MapSet(EmptyMap, 7, Len(scopes) - i)
            /\ Len(scopes) - i \in 0..(Len(scopes) - 1)

\* the entries of the side table: the name of the node, its line and the distance
Entries ==
  {[name |-> scanner.tokens[id + 1].lexeme, line |-> scanner.tokens[id + 1].line,
    distance |-> locals[id]] : id \in DOMAIN locals}

Entry(name, line, distance) == [name |-> name, line |-> line, distance |-> distance]

\* SrcDistances: later, g and h, declared at top level or after the use, have no entry
Distances ==
  {Entry(<<"a">>, 8, 1), Entry(<<"b">>, 11, 1), Entry(<<"a">>, 12, 0), Entry(<<"a">>, 13, 0),
   Entry(<<"p">>, 17, 0), Entry(<<"a">>, 18, 2), Entry(<<"f">>, 19, 1), Entry(<<"p">>, 21, 0)}

\* a resolver step adds entries and changes none
EntriesKept == \A id \in DOMAIN locals : id \in DOMAIN locals' /\ locals'[id] = locals[id]

\* C24: for every Variable and Assign node, the side table holds a distance d exactly
\* when some local scope on the scope stack contains the name at the moment the resolver
\* visits the node; d is the number of scopes between the innermost scope and the
\* innermost one that contains the name, 0 <= d < stack depth.  Names declared only at
\* top level, or in an enclosing scope after the use, get no entry; an entry is written
\* once and only Variable and Assign nodes get one.
C24_Distances ==
  /\ [](pc = "resolved" =>
          /\ DOMAIN locals \subseteq IdsOfStmts(statements)
          /\ \A id \in DOMAIN locals :
               scanner.tokens[id + 1].type = "IDENTIFIER" /\ locals[id] \in Nat
          /\ source = SrcDistances =>
               /\ Entries = Distances
               /\ \A scopes \in ScopeStacks : \A name \in ScopeNames : Nearest(scopes, name))
  /\ [][EntriesKept]_vars

\* the side table of SrcDistances: the a printed in the innermost block is the a of
\* that block, the a printed in f is two scopes out, g has no entry
C24_Witness ==
  /\ pc = "resolved" /\ source = SrcDistances
  /\ Entry(<<"a">>, 12, 0) \in Entries /\ Entry(<<"a">>, 18, 2) \in Entries
  /\ \A entry \in Entries : entry.name # <<"g">>
  /\ Cardinality(DOMAIN locals) = 8

\* the Environment objects made so far
Environments == 1..Len(envs)

\* the global environment has no parent, it alone; the parent of any other environment
\* was made before it
ParentsEarlier ==
  \A e \in Environments :
    IF e = globals THEN envs[e].enclosing = NoEnv
    ELSE envs[e].enclosing \in 1..(e - 1)

RECURSIVE ReachesGlobals(_, _)
\* following enclosing from e reaches the global environment within n hops
ReachesGlobals(e, n) ==
  \/ e = globals
  \/ n > 0 /\ envs[e].enclosing # NoEnv /\ ReachesGlobals(envs[e].enclosing, n - 1)

\* the chain of e ends at the global environment and passes no environment twice
ChainEnds(e) == e \in Environments /\ ReachesGlobals(e, Len(envs) - 1)

\* the parent of an environment never changes, and no environment goes away
ParentsFixed ==
  /\ Len(envs') >= Len(envs)
  /\ \A e \in Environments : envs'[e].enclosing = envs[e].enclosing

\* C25: in every reachable evaluator state, following the enclosing references from the
\* current environment reaches the single global environment after finitely many hops:
\* the chain is acyclic, the parent of an environment is fixed at creation and was
\* created earlier, and the global environment is the only one without a parent.  The
\* same holds for the captured environment of every function value.
C25_ChainsEndAtGlobals ==
  /\ [](envs # <<>> =>
          /\ ParentsEarlier
          /\ ChainEnds(environment)
          /\ \A f \in 1..Len(funs) : ChainEnds(funs[f].closure)
          /\ \A i \in 1..Len(kont) : kont[i].f = "executeBlock" => ChainEnds(kont[i].previous))
  /\ [][ParentsFixed]_vars

\* SrcAgreement, in the second call of inner: the chain of the current environment has
\* three hops to the globals, through the environments of middle and of outer, whose
\* calls returned long ago
C25_Witness ==
  /\ source = SrcAgreement /\ out = <<<<"s","h","a","d","o","w">>, <<"3">>>>
  /\ Evaluating("Variable") /\ ctl.expr.name.lexeme = <<"b">>
  /\ Enclosing(environment) = 3
  /\ Hops(environment, 3) = globals
  /\ \E f \in 1..Len(funs) : funs[f].closure = envs[environment].enclosing
  /\ Len(envs) > 4

\* the calls of executeBlock that have not finished, outermost first
Blocks == {i \in 1..Len(kont) : kont[i].f = "executeBlock"}

\* the environment that call i of executeBlock installed: the one that the next call
\* of executeBlock found, or the current one
Installed(i) ==
  IF \E j \in Blocks : j > i
  THEN kont[CHOOSE j \in Blocks : j > i /\ \A n \in Blocks : n > i => j <= n].previous
  ELSE environment

\* call i of executeBlock runs the body of a function
OfCall(i) == i > 1 /\ kont[i - 1].f = "call"

\* while calls of executeBlock are pending, each found the environment that its caller
\* runs in: the environment of a block is a child of the one found, the environment of
\* a call is a child of the closure of a function; with none pending the current
\* environment is the global one
Nested ==
  /\ Blocks = {} => environment = globals
  /\ \A i \in Blocks :
       /\ Installed(i) # kont[i].previous
       /\ ~OfCall(i) => envs[Installed(i)].enclosing = kont[i].previous
       /\ OfCall(i) => \E f \in 1..Len(funs) : envs[Installed(i)].enclosing = funs[f].closure

\* a step that ends a call of executeBlock, in whatever way, restores the environment
\* that the call found; no other step but the start of such a call changes it
Restored ==
  Running /\ kont # <<>> =>
    /\ Top.f = "executeBlock" /\ Len(kont') < Len(kont) => environment' = Top.previous
    /\ environment' # environment =>
         \/ Top.f = "executeBlock" /\ Len(kont') < Len(kont)
         \/ Len(kont') > Len(kont) /\ kont'[Len(kont')].f = "executeBlock"
                                   /\ kont'[Len(kont')].previous = environment

\* C26: executeBlock always restores the environment: when it finishes, normally, by a
\* runtime error or by a return signal, the current environment is the one that was
\* current when it was entered; after a call expression completes or fails the current
\* environment is the caller's, and when interpretStatements ends, also after a runtime
\* error raised deep inside nested blocks and calls, it is the global environment.
C26_EnvironmentRestored ==
  /\ [](Running /\ kont # <<>> => Nested)
  /\ [](pc \in {"interpreted", "exit"} /\ envs # <<>> => environment = globals)
  /\ [](pc = "exit" /\ source = SrcRestore =>
          out = <<<<"l","o","o","p">>, <<"o","u","t","e","r">>, <<"n","i","l">>, <<"o","u","t","e","r">>, <<"g","l","o","b","a","l">>>> /\ exitCode = 70)
  /\ [][Restored]_vars

\* SrcRestore: the runtime error of f(3), raised in a block in a loop in a block in a call
\* in a block in a block, has left them all and interpretStatements has caught it
C26_Witness ==
  /\ source = SrcRestore /\ pc = "interpreted" /\ hadRuntimeError
  /\ out = <<<<"l","o","o","p">>, <<"o","u","t","e","r">>, <<"n","i","l">>, <<"o","u","t","e","r">>, <<"g","l","o","b","a","l">>>>
  /\ environment = globals /\ Len(envs) > 8

\* the heap after binding name to value in environment e and nothing else
WithBinding(e, name, value) ==
  [n \in 1..Len(envs) |->
     IF n = e THEN [envs[n] EXCEPT !.values = MapSet(@, name, value)] ELSE envs[n]]

\* executing a declaration binds the name in the current environment, to nil without
\* initializer, and changes nothing else
Declares ==
  /\ Entering("Var") /\ ctl.stmt.initializer = Null
       => envs' = WithBinding(environment, ctl.stmt.name.lexeme, Nil)
  /\ Resuming("visitVarStmt", "value")
       => envs' = WithBinding(environment, Top.stmt.name.lexeme, ctl.value)
  /\ Entering("Function")
       => envs' = WithBinding(environment, ctl.stmt.name.lexeme, Fn(Len(funs) + 1))

\* an assignment that succeeds changes the binding that its variable resolves to
AssignsTarget ==
  Resuming("visitAssignExpr", "value") /\ ctl'.m = "value" =>
    envs' = WithBinding(Target(Top.expr), Top.expr.name.lexeme, ctl.value)

\* an assignment creates no binding
AssignsExisting ==
  Resuming("visitAssignExpr", "value") =>
    \A e \in 1..Len(envs) : DOMAIN envs'[e].values = DOMAIN envs[e].values

\* an assignment creates no binding, but the one to a variable inside its own initializer
AssignsExistingButOwnInitializer ==
  Resuming("visitAssignExpr", "value") =>
    IF MapHas(locals, Top.expr.id) /\ InOwnInitializer(Top.expr.name)
    THEN envs' = WithBinding(environment, Top.expr.name.lexeme, ctl.value)
         /\ ~MapHas(envs[environment].values, Top.expr.name.lexeme)
    ELSE \A e \in 1..Len(envs) : DOMAIN envs'[e].values = DOMAIN envs[e].values

\* what SrcDefine prints: the outer x is there again after the block and after the call
Defined ==
  pc = "exit" /\ source = SrcDefine =>
    out = <<<<"n","i","l">>, <<"n","i","l">>, <<"c","h","a","n","g","e","d">>, <<"o","u","t","e","r">>, <<"a","r","g">>, <<"o","u","t","e","r">>, <<"g","l","o","b","a","l">>,
            <<"a","s","s","i","g","n","e","d">>>>

UndefinedVariable(name) ==
  RuntimeError(name, [msg |-> "Undefined variable 'X'.", X |-> name.lexeme])

\* reading a name without side-table entry: the binding of the global environment, or
\* the exception at the name token, whatever the current chain binds
ReadsGlobal ==
  Evaluating("Variable") /\ ~MapHas(locals, ctl.expr.id) =>
    /\ envs' = envs
    /\ ctl' = IF MapHas(envs[globals].values, ctl.expr.name.lexeme)
              THEN Value(envs[globals].values[ctl.expr.name.lexeme])
              ELSE Throw(UndefinedVariable(ctl.expr.name))

\* assigning a name without side-table entry: the binding of the global environment
\* changes, or the exception at the name token and no change to any environment
AssignsGlobal ==
  Resuming("visitAssignExpr", "value") /\ ~MapHas(locals, Top.expr.id) =>
    IF MapHas(envs[globals].values, Top.expr.name.lexeme)
    THEN /\ envs' = WithBinding(globals, Top.expr.name.lexeme, ctl.value)
         /\ ctl' = Value(ctl.value)
    ELSE /\ envs' = envs
         /\ ctl' = Throw(UndefinedVariable(Top.expr.name))

\* what is reported for the undefined name, on the line of the name token
UndefinedReport(name, line) ==
  << [fmt |-> "message", msg |-> "Undefined variable 'X'.", X |-> name],
     [fmt |-> "line", line |-> line] >>

\* what the programs with an undefined name print and report
UndefinedReported ==
  pc = "exit" =>
    /\ source = SrcUndefinedRead =>
         out = <<<<"1">>>> /\ errs = UndefinedReport(<<"m","i","s","s","i","n","g">>, 3) /\ exitCode = 70
    /\ source = SrcUndefinedAssign =>
         out = <<<<"2">>>> /\ errs = UndefinedReport(<<"m","i","s","s","i","n","g">>, 3) /\ exitCode = 70
    /\ source = SrcUndefinedLocalRead =>
         out = <<>> /\ errs = UndefinedReport(<<"a">>, 3) /\ exitCode = 70
    /\ source = SrcUndefinedLocalAssign =>
         out = <<>> /\ errs = UndefinedReport(<<"a">>, 3) /\ exitCode = 70

\* C28: reading or assigning a name that has no side-table entry and is not defined in
\* the global environment raises RuntimeError "Undefined variable 'X'." at the name
\* token; a failed assignment creates no binding and changes no binding of any
\* environment; a name without side-table entry is looked up in the global environment
\* only, never in the current chain.
C28_UndefinedVariable ==
  [](UndefinedReported) /\ [][ReadsGlobal /\ AssignsGlobal]_vars

\* the assignment of SrcUndefinedLocalAssign is about to fail: the current chain binds
\* a, the global environment does not, and the right-hand side is evaluated
C28_Witness ==
  /\ source = SrcUndefinedLocalAssign
  /\ Resuming("visitAssignExpr", "value")
  /\ ~MapHas(locals, Top.expr.id)
  /\ ~envGet(envs, environment, Top.expr.name).thrown
  /\ ~MapHas(envs[globals].values, Top.expr.name.lexeme)

====
